---- MODULE Spec2Model ----
(***************************************************************************)
(* A model of syncai (dudykr/syncai): the rule parser, the fan-out         *)
(* converter and the debounced file watcher.                               *)
(*                                                                         *)
(* These specifications share the module:                                  *)
(*   Spec / FairSpec  the initial build of the build command, then the    *)
(*                    watch loop of Watcher.Start with its debounce timers *)
(*                    and the rebuild goroutines they start, each build    *)
(*                    reading the project's files one by one and writing   *)
(*                    its output one system call at a time;                *)
(*   InRootSpec       the same loop when the output directory is the       *)
(*                    project itself ("." or its absolute path);           *)
(*   ConvSpec         one or more passes of Converter.ConvertRules (and of *)
(*   / ConvFairSpec   the older buildOnce) over a RuleSet;                 *)
(*   MdcSpec          parseMDCFile / buildMDCContent on fragment texts;    *)
(*   CallSpec         single calls of pure functions and of the commands'  *)
(*                    argument checks;                                     *)
(*   ImportSpec       repeated runs of the import command into a target    *)
(*                    project.                                             *)
(* Text is modelled by TLA+ strings, one character per byte.               *)
(***************************************************************************)
EXTENDS Integers, Sequences, FiniteSets, TLC

VARIABLES
    \* ---- Watcher (src/unnamed/part_004) ----
    loop,           \* position of the run: "build" (performBuild), "failed",
                    \* "watch" (runWatchMode), "new", "select", "returned"
                    \* (Watcher.Start)
    watched,        \* directories added to the fsnotify watcher
    exists,         \* directories that exist in the project tree
    Events,         \* w.watcher.Events: events delivered, not yet received
    timers,         \* every timer time.AfterFunc created, in creation order:
                    \* state and remaining ticks, and as history the burst
                    \* whose event armed it, the events that burst held when
                    \* it fired, the failures logged before it was armed
    debounceTimer,  \* the loop's debounceTimer: index into timers, 0 = nil
    rebuild,        \* per timer: the w.rebuild() call its expiry started
    cancelled,      \* ctx.Done() is closed
    closed,         \* w.watcher.Close() was called
    exited,         \* runWatchMode returned and the process ended
    nChanges,       \* filesystem changes made so far (bounded)
    version,        \* history: qualifying rule-source changes made while watching
    snapshot,       \* history: per rebuild, the version its Discovery pass read
    bursts,         \* history: per burst of handled events, how many it holds
    sinceLast,      \* history: ticks since the last qualifying event was handled
    failures,       \* history: rebuild errors logged
    woutput,        \* the outputDir of the Watcher's Converter (--output)
    wtargets,       \* w.targets
    wfiles,         \* the files of the project's directories: path -> text
    pending,        \* per rebuild: the system calls its ConvertRules has yet
                    \* to make
    parsing,        \* per rebuild: where its ParseCursorRules is and what it
                    \* has read
    initial,        \* performBuild, the build before the Watcher is made:
                    \* its position, its parsing and its pending calls
    \* ---- Converter (internal/types/types.go, internal/tools/types.go) ----
    api,            \* the build entered: "ConvertRules" or "buildOnce"
    ruleSet,        \* the RuleSet handed to the pass
    targets,        \* the target list handed to the pass
    cpc,            \* position of the caller: "idle", "spawn", "wait", "returned"
    tasks,          \* the goroutines started so far, one per loop iteration
    errChan,        \* the buffered error channel
    outcome,        \* what the build returned
    disk,           \* the files of the output directory: path -> content
    diskDirs,       \* the directories that exist, the output directory and
                    \* those made below it
    pass,           \* number of the current pass over the same RuleSet
    prevDisk,       \* history: the disk when the previous pass returned
    prevOk,         \* history: the previous pass returned nil
    \* ---- Parser round trip (src/unnamed/part_001) ----
    mpc,            \* "idle", "input", "parsed", "written", "reparsed"
    mfile,          \* the fragment file: its path and text
    mfirst,         \* the MDCRule parsed from it
    mtext,          \* buildMDCContent of that rule
    msecond,        \* the MDCRule parsed from mtext
    \* ---- Calls of single functions and commands ----
    fpc,            \* "idle", "call", "return", and the positions of
                    \* watchAndBuild: "watch", "add", "build", "watching",
                    \* "sleep", "reload", "enter", "rebuild"
    fn,             \* the function called
    arg,            \* its argument
    ret,            \* what it returned
    \* ---- Import command (main.go: performImport) ----
    ipc,            \* "idle", "start", "copy" (the loops of performImport),
                    \* "stat", "read", "open", "write" (writeFileWithMerge
                    \* and its os.WriteFile), "done", "failed"
    isource,        \* the RuleSet parsed from the source project
    idisk,          \* the files of the target project: path -> content
    iplan,          \* the copies this run of performImport makes, in order
    icopied,        \* how many of them it has made
    ibuf,           \* the bytes writeFileWithMerge hands to os.WriteFile
    imports,        \* number of imports started so far
    ibefore         \* history: the target project when this import started

wvars == <<loop, watched, exists, Events, timers, debounceTimer, rebuild,
           cancelled, closed, exited, nChanges, version, snapshot, bursts,
           sinceLast, failures, woutput, wtargets, wfiles, pending,
           parsing, initial>>

\* Set by NewConverter and NewWatcher, never assigned again
wfixed == <<woutput, wtargets>>

cvars == <<api, ruleSet, targets, cpc, tasks, errChan, outcome, disk,
           diskDirs, pass, prevDisk, prevOk>>

mvars == <<mpc, mfile, mfirst, mtext, msecond>>

fvars == <<fpc, fn, arg, ret>>

ivars == <<ipc, isource, idisk, iplan, icopied, ibuf, imports, ibefore>>

\* What the actions of one component leave alone
notWatcher == <<cvars, mvars, fvars, ivars>>
notConverter == <<wvars, mvars, fvars, ivars>>
notParser == <<wvars, cvars, fvars, ivars>>
notCall == <<wvars, cvars, mvars, ivars>>
notImport == <<wvars, cvars, mvars, fvars>>

----------------------------------------------------------------------------
(* Strings (package strings, path/filepath)                                *)
(*                                                                         *)
(* TLC evaluates an argument each time the operator's body uses it, and a  *)
(* recursive operator that uses its argument twice then takes time         *)
(* exponential in its depth.  Such operators take their argument through   *)
(* a bound variable, whose value is computed once: F(x) is the one element *)
(* of {FOf(v) : v \in {x}}.                                                 *)

CharAt(s, i) == SubSeq(s, i, i)

HasPrefix(s, prefix) ==
    Len(s) >= Len(prefix) /\ SubSeq(s, 1, Len(prefix)) = prefix

HasSuffix(s, suffix) ==
    Len(s) >= Len(suffix) /\ SubSeq(s, Len(s) - Len(suffix) + 1, Len(s)) = suffix

\* strings.Index: the first position of substr in s (1-based), 0 when absent.
Index(s, substr) ==
    LET hits == {i \in 1..(Len(s) - Len(substr) + 1) :
                    SubSeq(s, i, i + Len(substr) - 1) = substr}
    IN  IF hits = {} THEN 0 ELSE CHOOSE i \in hits : \A j \in hits : i <= j

Contains(s, substr) == Index(s, substr) # 0

\* The position of the last "/" of s, 0 when there is none.
LastSlash(s) ==
    LET hits == {i \in 1..Len(s) : CharAt(s, i) = "/"}
    IN  IF hits = {} THEN 0 ELSE CHOOSE i \in hits : \A j \in hits : j <= i

RECURSIVE StripTrailingSlashes(_)
StripTrailingSlashesOf(s) ==
    IF Len(s) > 0 /\ CharAt(s, Len(s)) = "/"
    THEN StripTrailingSlashes(SubSeq(s, 1, Len(s) - 1))
    ELSE s
StripTrailingSlashes(s) == CHOOSE r \in {StripTrailingSlashesOf(v) : v \in {s}} : TRUE

\* filepath.Base
Base(path) ==
    IF path = "" THEN "."
    ELSE LET p == StripTrailingSlashes(path)
         IN  IF p = "" THEN "/" ELSE SubSeq(p, LastSlash(p) + 1, Len(p))

\* filepath.Dir, for the cleaned absolute paths the model uses
Dir(path) ==
    LET i == LastSlash(path)
    IN  IF i = 0 THEN "." ELSE IF i = 1 THEN "/" ELSE SubSeq(path, 1, i - 1)

\* strings.Split(s, sep), sep not empty
RECURSIVE Split(_, _)
SplitAt(s, sep, i) ==
    IF i = 0 THEN <<s>>
    ELSE <<SubSeq(s, 1, i - 1)>> \o Split(SubSeq(s, i + Len(sep), Len(s)), sep)
Split(s, sep) ==
    CHOOSE r \in {SplitAt(v, sep, i) : <<v, i>> \in {<<s, Index(s, sep)>>}} : TRUE

\* strings.Join(elems, sep)
RECURSIVE Join(_, _)
Join(elems, sep) ==
    IF elems = <<>> THEN ""
    ELSE IF Len(elems) = 1 THEN elems[1]
    ELSE elems[1] \o sep \o Join(Tail(elems), sep)

\* filepath.Clean on the elements of a path: "" and "." are dropped, ".."
\* removes the element before it, is dropped at the root of a rooted path and
\* is kept at the start of any other.  done holds the elements cleaned so far.
RECURSIVE CleanElems(_, _, _)
CleanElems(elems, done, rooted) ==
    IF elems = <<>> THEN done
    ELSE IF Head(elems) = "" \/ Head(elems) = "."
    THEN CleanElems(Tail(elems), done, rooted)
    ELSE IF Head(elems) = ".."
    THEN (IF done # <<>> /\ done[Len(done)] # ".."
          THEN CleanElems(Tail(elems), SubSeq(done, 1, Len(done) - 1), rooted)
          ELSE IF rooted THEN CleanElems(Tail(elems), done, rooted)
          ELSE CleanElems(Tail(elems), Append(done, ".."), rooted))
    ELSE CleanElems(Tail(elems), Append(done, Head(elems)), rooted)

\* filepath.Clean
CleanJoin(elems, rooted) ==
    IF elems = <<>> THEN (IF rooted THEN "/" ELSE ".")
    ELSE (IF rooted THEN "/" ELSE "") \o Join(elems, "/")
Clean(path) ==
    IF path = "" THEN "."
    ELSE CHOOSE r \in {CleanJoin(CleanElems(elems, <<>>, HasPrefix(v, "/")),
                                 HasPrefix(v, "/")) :
                           <<v, elems>> \in {<<path, Split(path, "/")>>}} : TRUE

\* filepath.Join(elem...): empty elements are dropped, the rest joined by "/"
\* and cleaned; "" when every element is empty.
JoinPath(elems) ==
    IF SelectSeq(elems, LAMBDA e : e # "") = <<>> THEN ""
    ELSE Clean(Join(SelectSeq(elems, LAMBDA e : e # ""), "/"))

\* The length of the longest common prefix of two sequences
RECURSIVE CommonPrefix(_, _)
CommonPrefix(a, b) ==
    IF a = <<>> \/ b = <<>> \/ Head(a) # Head(b) THEN 0
    ELSE 1 + CommonPrefix(Tail(a), Tail(b))

\* The elements of a cleaned path ("." has none)
PathElems(path) ==
    SelectSeq(Split(path, "/"), LAMBDA e : e # "" /\ e # ".")

\* filepath.Rel(basepath, targpath): the path that leads from the base to the
\* target, ".." for every element of the base the target does not share; an
\* error when one path is rooted and the other is not, or when the base
\* starts with ".." elements the target does not have.
Rel(basepath, targpath) ==
    LET b == PathElems(Clean(basepath))
        t == PathElems(Clean(targpath))
        n == CommonPrefix(b, t)
    IN  IF HasPrefix(basepath, "/") # HasPrefix(targpath, "/")
        THEN [ok |-> FALSE, path |-> ""]
        ELSE IF n < Len(b) /\ b[n + 1] = ".."
        THEN [ok |-> FALSE, path |-> ""]
        ELSE IF n = Len(b) /\ n = Len(t) THEN [ok |-> TRUE, path |-> "."]
        ELSE [ok |-> TRUE,
              path |-> Join([i \in 1..(Len(b) - n) |-> ".."]
                                \o SubSeq(t, n + 1, Len(t)), "/")]

UpperCase == "ABCDEFGHIJKLMNOPQRSTUVWXYZ"
LowerCase == "abcdefghijklmnopqrstuvwxyz"

\* strings.ToLower, for ASCII text
RECURSIVE ToLower(_)
ToLower(s) ==
    IF s = "" THEN ""
    ELSE LET c == CharAt(s, 1)
             i == Index(UpperCase, c)
         IN  (IF i = 0 THEN c ELSE CharAt(LowerCase, i)) \o ToLower(Tail(s))

\* strings.ReplaceAll(s, old, new), old not empty
RECURSIVE ReplaceAll(_, _, _)
ReplaceAt(s, old, new, i) ==
    IF i = 0 THEN s
    ELSE SubSeq(s, 1, i - 1) \o new
             \o ReplaceAll(SubSeq(s, i + Len(old), Len(s)), old, new)
ReplaceAll(s, old, new) ==
    CHOOSE r \in {ReplaceAt(v, old, new, i) :
                     <<v, i>> \in {<<s, Index(s, old)>>}} : TRUE

\* strings.Trim(s, cutset)
RECURSIVE TrimLeft(_, _)
TrimLeft(s, cutset) ==
    IF s # "" /\ Contains(cutset, CharAt(s, 1)) THEN TrimLeft(Tail(s), cutset) ELSE s

RECURSIVE TrimRight(_, _)
TrimRightOf(s, cutset) ==
    IF s # "" /\ Contains(cutset, CharAt(s, Len(s)))
    THEN TrimRight(SubSeq(s, 1, Len(s) - 1), cutset) ELSE s
TrimRight(s, cutset) == CHOOSE r \in {TrimRightOf(v, cutset) : v \in {s}} : TRUE

Trim(s, cutset) == TrimRight(TrimLeft(s, cutset), cutset)

\* strings.TrimSpace, for ASCII text: space, \t, \n, \r (and \v, \f, which
\* the model's texts do not hold)
TrimSpace(s) == Trim(s, " \t\n\r")

----------------------------------------------------------------------------
(* Rule sets (internal/types: CursorRules, MDCRule)                        *)

\* The RuleSet of a project with the global rules "G", an always-apply
\* fragment A, a conditional fragment C scoped to *.ts below folder f, and
\* folder rules for the folders f and g.
FragA == [Name |-> "A", Description |-> "", Content |-> "ABody",
          AlwaysApply |-> TRUE, Globs |-> <<>>,
          FilePath |-> "/p/.cursor/rules/A.mdc"]
FragC == [Name |-> "C", Description |-> "", Content |-> "CBody",
          AlwaysApply |-> FALSE, Globs |-> <<"*.ts">>,
          FilePath |-> "/p/f/.cursor/rules/C.mdc"]

FragB == [Name |-> "B", Description |-> "", Content |-> "BBody",
          AlwaysApply |-> TRUE, Globs |-> <<>>,
          FilePath |-> "/p/.cursor/rules/B.mdc"]
FragD == [Name |-> "D", Description |-> "", Content |-> "DBody",
          AlwaysApply |-> FALSE, Globs |-> <<>>,
          FilePath |-> "/p/f/.cursor/rules/D.mdc"]

RulesOneFolder ==
    [GlobalRules |-> "G", FolderRules |-> [k \in {"f"} |-> "FBody"],
     MDCRules |-> <<FragA, FragC>>]
RulesTwoFolders ==
    [GlobalRules |-> "G",
     FolderRules |-> [k \in {"f", "g"} |-> IF k = "f" THEN "FBody" ELSE "GBody"],
     MDCRules |-> <<FragA>>]
RulesGlobalOnly ==
    [GlobalRules |-> "G", FolderRules |-> [k \in {} |-> ""], MDCRules |-> <<>>]

\* The RuleSet of Parser.ParseCursorRules before anything is read, and of a
\* project that holds no rules
NoRules == [GlobalRules |-> "", FolderRules |-> [k \in {} |-> ""], MDCRules |-> <<>>]

RuleSets == {RulesOneFolder, RulesTwoFolders, RulesGlobalOnly}

\* The orders in which a range over the map m may visit its keys: Go leaves
\* the iteration order of a map unspecified, every order can occur.
KeyOrders(m) ==
    {o \in [1..Cardinality(DOMAIN m) -> DOMAIN m] :
        \A i, j \in DOMAIN o : i # j => o[i] # o[j]}

----------------------------------------------------------------------------
(* Converter: rendering (internal/types/types.go, package tools)           *)

\* The Converter's outputDir where the model converts into the project root
\* (the Watcher's Converter has woutput instead).
outputDir == "/p"

\* os.Getwd(): the commands run in the project directory
Getwd == "/p"

\* filepath.Abs(path)
Abs(path) == IF HasPrefix(path, "/") THEN Clean(path) ELSE JoinPath(<<Getwd, path>>)

\* GetToolConfigs()[t].ConfigPath, for the targets it holds
ToolConfigs == {"cursor", "windsurf", "roo-code", "cline"}
ConfigPath(t) ==
    CASE t = "cursor" -> ".cursorrules"
      [] t = "windsurf" -> ".windsurfrules"
      [] t = "roo-code" -> "roo-code-rules.md"
      [] t = "cline" -> ".cline/instructions.md"

\* A flatten whose first loop skips the AlwaysApply test and takes every
\* fragment
EveryFragmentAlways(mdc) ==
    [i \in 1..Len(mdc) |-> "# " \o mdc[i].Name \o "\n\n" \o mdc[i].Content]

\* The always-apply parts of buildGlobalContent
RECURSIVE AlwaysParts(_)
AlwaysParts(mdc) ==
    IF mdc = <<>> THEN <<>>
    ELSE (IF Head(mdc).AlwaysApply
          THEN <<"# " \o Head(mdc).Name \o "\n\n" \o Head(mdc).Content>>
          ELSE <<>>) \o AlwaysParts(Tail(mdc))

\* The folder parts of buildGlobalContent, visited in the order given
FolderParts(folderRules, order) ==
    [i \in 1..Len(order) |->
        "## Rules for " \o order[i] \o "\n\n" \o folderRules[order[i]]]

\* The conditional parts of buildGlobalContent
RECURSIVE ConditionalParts(_)
ConditionalParts(mdc) ==
    IF mdc = <<>> THEN <<>>
    ELSE (IF ~Head(mdc).AlwaysApply
          THEN LET globsInfo ==
                       IF Len(Head(mdc).Globs) > 0
                       THEN " (applies to: " \o Join(Head(mdc).Globs, ", ") \o ")"
                       ELSE ""
               IN  <<"## " \o Head(mdc).Name \o globsInfo \o "\n\n"
                         \o Head(mdc).Content>>
          ELSE <<>>) \o ConditionalParts(Tail(mdc))

\* A flatten that writes the conditional section before the folder section
ConditionalBeforeFolders(rules, order) ==
    Join((IF rules.GlobalRules # ""
          THEN <<"# Global Rules\n\n" \o rules.GlobalRules>> ELSE <<>>)
         \o AlwaysParts(rules.MDCRules)
         \o (IF Len(ConditionalParts(rules.MDCRules)) > 0
             THEN <<"\n# Conditional Rules\n">> \o ConditionalParts(rules.MDCRules)
             ELSE <<>>)
         \o (IF Len(order) > 0
             THEN <<"\n# Folder-specific Rules\n">>
                      \o FolderParts(rules.FolderRules, order)
             ELSE <<>>),
         "\n\n")

\* Converter.buildGlobalContent; order is the order in which the range over
\* rules.FolderRules visits the folders.
buildGlobalContent(rules, order) ==
    LET global == IF rules.GlobalRules # ""
                  THEN <<"# Global Rules\n\n" \o rules.GlobalRules>> ELSE <<>>
        folders == IF Len(order) > 0
                   THEN <<"\n# Folder-specific Rules\n">>
                            \o FolderParts(rules.FolderRules, order)
                   ELSE <<>>
        cond == ConditionalParts(rules.MDCRules)
        conditional == IF Len(cond) > 0
                       THEN <<"\n# Conditional Rules\n">> \o cond ELSE <<>>
    IN  Join(global \o AlwaysParts(rules.MDCRules) \o folders \o conditional,
             "\n\n")

\* A re-serialization that writes a metadata block for the name alone
BlockForName(rule) ==
    IF rule.Name # ""
    THEN Join(<<"---", "name: " \o rule.Name, "---", "", rule.Content>>, "\n")
    ELSE rule.Content

\* Converter.buildMDCContent
buildMDCContent(rule) ==
    LET front ==
            IF rule.Description # "" \/ rule.AlwaysApply \/ Len(rule.Globs) > 0
            THEN <<"---">>
                 \o (IF rule.Name # "" THEN <<"name: " \o rule.Name>> ELSE <<>>)
                 \o (IF rule.Description # ""
                     THEN <<"description: " \o rule.Description>> ELSE <<>>)
                 \o (IF rule.AlwaysApply THEN <<"alwaysApply: true">> ELSE <<>>)
                 \o (IF Len(rule.Globs) > 0
                     THEN <<"globs:">>
                          \o [i \in 1..Len(rule.Globs) |-> "  - " \o rule.Globs[i]]
                     ELSE <<>>)
                 \o <<"---", "">>
            ELSE <<>>
    IN  Join(front \o <<rule.Content>>, "\n")

\* The loop of sanitizeFilename that removes runs of hyphens
RECURSIVE CollapseHyphens(_)
CollapseHyphens(s) ==
    IF Contains(s, "--") THEN CollapseHyphens(ReplaceAll(s, "--", "-")) ELSE s

\* ReplaceAll(s, c, "-") for each character c of chars in turn
RECURSIVE HyphenateAll(_, _)
HyphenateAll(s, chars) ==
    IF chars = "" THEN s
    ELSE HyphenateAll(ReplaceAll(s, CharAt(chars, 1), "-"), Tail(chars))

\* sanitizeFilename (internal/types/types.go)
sanitizeFilename(name) ==
    LET result == Trim(CollapseHyphens(HyphenateAll(ToLower(name), " /\\:*?\"<>|")),
                       "-")
    IN  IF result = "" THEN "unnamed" ELSE result

\* One call of a conversion that touches the filesystem:
\* c.writeFile(path, content), which is os.MkdirAll of the parent (mk) and
\* then os.WriteFile, or os.MkdirAll(path).  wrap is the text the caller puts
\* before the error of the call.
WriteOp(path, content) ==
    [kind |-> "write", path |-> path, content |-> content, wrap |-> "",
     mk |-> TRUE]
MkdirOp(path) ==
    [kind |-> "mkdir", path |-> path, content |-> "", wrap |-> "", mk |-> FALSE]

\* return fmt.Errorf("failed to create ... directory: %w", err) around a call
WrapOp(op, wrap) == [op EXCEPT !.wrap = wrap]

\* mdcPath of convertToCursor.  The base of filepath.Rel is c.outputDir, which
\* convertToTool passes as targetDir; the error of filepath.Rel is dropped,
\* and its path is then "".
CursorFragmentPath(rule, targetDir) ==
    JoinPath(<<targetDir, Rel(targetDir, rule.FilePath).path>>)

\* Converter.convertToCursor: the calls it makes, in order.
convertToCursor(rules, targetDir, order) ==
    (IF rules.GlobalRules # ""
     THEN <<WriteOp(JoinPath(<<targetDir, ConfigPath("cursor")>>), rules.GlobalRules)>>
     ELSE <<>>)
    \o [i \in 1..(2 * Len(order)) |->
           IF i % 2 = 1
           THEN MkdirOp(JoinPath(<<targetDir, order[(i + 1) \div 2], ".cursor",
                                   "rules">>))
           ELSE WriteOp(JoinPath(<<targetDir, order[i \div 2], ".cursor",
                                   "rules", "rules">>),
                        rules.FolderRules[order[i \div 2]])]
    \o [i \in 1..(2 * Len(rules.MDCRules)) |->
           IF i % 2 = 1
           THEN MkdirOp(Dir(CursorFragmentPath(rules.MDCRules[(i + 1) \div 2],
                                               targetDir)))
           ELSE WriteOp(CursorFragmentPath(rules.MDCRules[i \div 2], targetDir),
                        buildMDCContent(rules.MDCRules[i \div 2]))]

\* Converter.convertToWindSurf
convertToWindSurf(rules, targetDir, order) ==
    <<WriteOp(JoinPath(<<targetDir, ConfigPath("windsurf")>>),
              buildGlobalContent(rules, order))>>

\* The calls convertToRooCode makes for one fragment (none when
\* filepath.Rel fails): the directory, then the file
RooFragmentOps(rule, targetDir) ==
    LET rel == Rel(Abs(targetDir), rule.FilePath)
        parts == Split(rel.path, "/")
        filename == sanitizeFilename(rule.Name) \o ".md"
    IN  IF ~rel.ok THEN <<>>
        ELSE IF Len(parts) < 3 \/ parts[2] # ".cursor" \/ parts[3] # "rules"
        THEN <<WrapOp(MkdirOp(JoinPath(<<targetDir, ".roo", "rules">>)),
                      "failed to create .roo/rules directory: "),
               WriteOp(JoinPath(<<targetDir, ".roo", "rules", filename>>),
                       "# " \o rule.Name \o "\n\n" \o rule.Content)>>
        ELSE <<WrapOp(MkdirOp(JoinPath(<<targetDir, parts[1], ".roo">>)),
                      "failed to create .roo directory for " \o parts[1]
                          \o ": "),
               WriteOp(JoinPath(<<targetDir, parts[1], ".roo", filename>>),
                       IF Len(rule.Globs) > 0
                       THEN "# " \o rule.Name \o "\n\n**Applies to:** "
                                \o Join(rule.Globs, ", ") \o "\n\n" \o rule.Content
                       ELSE "# " \o rule.Name \o "\n\n" \o rule.Content)>>

RECURSIVE RooFragments(_, _)
RooFragments(mdc, targetDir) ==
    IF mdc = <<>> THEN <<>>
    ELSE RooFragmentOps(Head(mdc), targetDir) \o RooFragments(Tail(mdc), targetDir)

\* Converter.convertToRooCode (internal/types/types.go)
convertToRooCode(rules, targetDir, order) ==
    (IF rules.GlobalRules # ""
     THEN <<WrapOp(MkdirOp(JoinPath(<<targetDir, ".roo", "rules">>)),
                   "failed to create .roo/rules directory: "),
            WriteOp(JoinPath(<<targetDir, ".roo", "rules", "01-global.md">>),
                    "# Global Rules\n\n" \o rules.GlobalRules)>>
     ELSE <<>>)
    \o RooFragments(rules.MDCRules, targetDir)
    \o [i \in 1..(2 * Len(order)) |->
           IF i % 2 = 1
           THEN WrapOp(MkdirOp(JoinPath(<<targetDir, order[(i + 1) \div 2],
                                          ".roo">>)),
                       "failed to create .roo directory for "
                           \o order[(i + 1) \div 2] \o ": ")
           ELSE WriteOp(JoinPath(<<targetDir, order[i \div 2], ".roo",
                                   "rules.md">>),
                        "# Rules for " \o order[i \div 2] \o "\n\n"
                            \o rules.FolderRules[order[i \div 2]])]

\* Converter.convertToCline: config.ConfigPath is ".cline/instructions.md",
\* so both writes go to that file.
convertToCline(rules, targetDir, order) ==
    LET content == buildGlobalContent(rules, order)
    IN  <<WriteOp(JoinPath(<<targetDir, ConfigPath("cline")>>), content),
          WrapOp(MkdirOp(JoinPath(<<targetDir, ".cline">>)),
                 "failed to create .cline directory: "),
          WriteOp(JoinPath(<<targetDir, ".cline", "instructions.md">>), content)>>

\* Converter.convertToTool of a Converter whose outputDir is dir
convertToToolAt(dir, rules, tool, order) ==
    CASE tool = "cursor" -> convertToCursor(rules, dir, order)
      [] tool = "windsurf" -> convertToWindSurf(rules, dir, order)
      [] tool = "roo-code" -> convertToRooCode(rules, dir, order)
      [] tool = "cline" -> convertToCline(rules, dir, order)

\* Converter.convertToTool of the Converter that writes into the project root
convertToTool(rules, tool, order) == convertToToolAt(outputDir, rules, tool, order)

----------------------------------------------------------------------------
(* The AITool builds of buildOnce (internal/tools: windsurf.go, roo_code.go *)
(* and the Cursor, Cline, ClaudeCode tools)                                *)

\* A call of an AITool's Build, os.WriteFile or os.MkdirAll as it is, with
\* the text the Build puts before the error of that call ("failed to write
\* .windsurfrules: %w").
BuildOp(op, wrap) ==
    [kind |-> op.kind, path |-> op.path, content |-> op.content, wrap |-> wrap,
     mk |-> FALSE]

\* loadProjectConfig's ProjectConfig, for the project the RuleSet describes
ProjectConfig(rules) ==
    [RootPath |-> "/p", CursorRules |-> rules.GlobalRules,
     MdcFiles |-> [i \in 1..Len(rules.MDCRules) |->
                     [Path |-> rules.MDCRules[i].FilePath,
                      Description |-> rules.MDCRules[i].Description,
                      Globs |-> rules.MDCRules[i].Globs,
                      AlwaysApply |-> rules.MDCRules[i].AlwaysApply,
                      Content |-> rules.MDCRules[i].Content]]]

\* The text WindSurf.Build, Cline.Build and ClaudeCode.Build write for the
\* MDC files: a heading per description (prefix "## " or "### "), the
\* patterns under the given label, the always-apply mark, the content.
RECURSIVE MdcSections(_, _, _)
MdcSections(files, heading, label) ==
    IF files = <<>> THEN ""
    ELSE LET f == Head(files)
         IN  (IF f.Description # "" THEN heading \o f.Description \o "\n" ELSE "")
             \o (IF Len(f.Globs) > 0
                 THEN label \o Join(f.Globs, ", ") \o "\n" ELSE "")
             \o (IF f.AlwaysApply THEN "**Always Apply:** Yes\n" ELSE "")
             \o "\n" \o f.Content \o "\n\n"
             \o MdcSections(Tail(files), heading, label)

\* WindSurf.Build
WindSurfBuild(config) ==
    LET content ==
            (IF config.CursorRules # ""
             THEN "# Global Rules\n" \o config.CursorRules \o "\n\n" ELSE "")
            \o (IF Len(config.MdcFiles) > 0
                THEN "# Context-specific Rules\n\n"
                         \o MdcSections(config.MdcFiles, "## ", "**Applies to:** ")
                ELSE "")
    IN  IF content = "" THEN <<>>
        ELSE <<BuildOp(WriteOp(JoinPath(<<config.RootPath, ".windsurfrules">>),
                               content),
                       "failed to write .windsurfrules: ")>>

\* Cline.Build (the .clinerules variant)
ClineBuild(config) ==
    LET instructions ==
            (IF config.CursorRules # ""
             THEN "# Global Instructions\n\n" \o config.CursorRules \o "\n\n"
             ELSE "")
            \o (IF Len(config.MdcFiles) > 0
                THEN "# Context-specific Instructions\n\n"
                         \o MdcSections(config.MdcFiles, "## ", "**File Patterns:** ")
                ELSE "")
    IN  IF instructions = "" THEN <<>>
        ELSE <<BuildOp(WriteOp(JoinPath(<<config.RootPath, ".clinerules">>),
                               instructions),
                       "failed to write .clinerules: ")>>

\* ClaudeCode.Build
ClaudeCodeBuild(config) ==
    LET content ==
            "# Claude Code Instructions\n\n"
            \o "This file contains custom instructions for Claude Code.\n\n"
            \o (IF config.CursorRules # ""
                THEN "## Global Instructions\n\n" \o config.CursorRules \o "\n\n"
                ELSE "")
            \o (IF Len(config.MdcFiles) > 0
                THEN "## Context-specific Instructions\n\n"
                         \o MdcSections(config.MdcFiles, "### ", "**File Patterns:** ")
                ELSE "")
    IN  IF config.CursorRules = "" /\ Len(config.MdcFiles) = 0 THEN <<>>
        ELSE <<BuildOp(WriteOp(JoinPath(<<config.RootPath, "CLAUDE.md">>), content),
                       "failed to write CLAUDE.md: ")>>

\* sanitizeFilename of internal/tools/roo_code.go: every invalid character
\* becomes an underscore
RECURSIVE UnderscoreAll(_, _)
UnderscoreAll(s, chars) ==
    IF chars = "" THEN s
    ELSE UnderscoreAll(ReplaceAll(s, CharAt(chars, 1), "_"), Tail(chars))

sanitizeFilenameTools(filename) == UnderscoreAll(filename, "/\\:*?\"<>| ")

\* Decimal text of a small natural number (fmt's %d)
RECURSIVE Itoa(_)
Itoa(n) == IF n < 10 THEN CharAt("0123456789", n + 1)
           ELSE Itoa(n \div 10) \o CharAt("0123456789", (n % 10) + 1)

\* RooCode.Build
RooCodeBuild(config) ==
    LET roocodeDir == JoinPath(<<config.RootPath, ".roocode">>)
        Glob(i, f) == "- " \o f.Globs[i] \o "\n"
        Context(i) ==
            LET f == config.MdcFiles[i]
                contextFile == IF f.Description # ""
                               THEN sanitizeFilenameTools(f.Description) \o ".md"
                               ELSE "context_" \o Itoa(i) \o ".md"
            IN  BuildOp(WriteOp(JoinPath(<<roocodeDir, contextFile>>),
                        (IF f.Description # "" THEN "# " \o f.Description \o "\n\n"
                         ELSE "")
                        \o (IF Len(f.Globs) > 0
                            THEN "## File Patterns\n"
                                     \o Join([j \in 1..Len(f.Globs) |-> Glob(j, f)], "")
                                     \o "\n"
                            ELSE "")
                        \o (IF f.AlwaysApply THEN "**Always Apply:** Yes\n\n" ELSE "")
                        \o f.Content),
                        "failed to write context file " \o contextFile \o ": ")
    IN  <<BuildOp(MkdirOp(roocodeDir), "failed to create .roocode directory: ")>>
        \o (IF config.CursorRules # ""
            THEN <<BuildOp(WriteOp(JoinPath(<<roocodeDir, "global.md">>),
                                   "# Global Context\n\n" \o config.CursorRules),
                           "failed to write global context: ")>>
            ELSE <<>>)
        \o [i \in 1..Len(config.MdcFiles) |-> Context(i)]

\* createTool: the tools it knows
ToolNames == {"cursor", "windsurf", "roo-code", "cline", "claude-code"}

\* AITool.Build of the tool createTool(name) returns; Cursor.Build writes
\* nothing and cannot fail.
ToolBuild(name, config) ==
    CASE name = "cursor" -> <<>>
      [] name = "windsurf" -> WindSurfBuild(config)
      [] name = "roo-code" -> RooCodeBuild(config)
      [] name = "cline" -> ClineBuild(config)
      [] name = "claude-code" -> ClaudeCodeBuild(config)

----------------------------------------------------------------------------
(* Parser.parseMDCFile (src/unnamed/part_001)                              *)

Digits == "0123456789"

\* The characters of \w
WordChars == LowerCase \o UpperCase \o Digits \o "_"

\* The characters of \s
Whitespace == " \t\n\r"

\* strings.TrimSuffix
TrimSuffix(s, suffix) ==
    IF HasSuffix(s, suffix) THEN SubSeq(s, 1, Len(s) - Len(suffix)) ELSE s

\* strings.SplitN(s, sep, n) for n > 0
RECURSIVE SplitN(_, _, _)
SplitN(s, sep, n) ==
    LET i == Index(s, sep)
    IN  IF n <= 1 \/ i = 0 THEN <<s>>
        ELSE <<SubSeq(s, 1, i - 1)>>
             \o SplitN(SubSeq(s, i + Len(sep), Len(s)), sep, n - 1)

\* The values yaml.Unmarshal puts in a map[string]interface{}: nil, a string,
\* a bool, an int, a nested mapping, a []interface{}; YError is a document
\* the decoder rejects.
YNull == [tag |-> "null", str |-> "", items |-> <<>>]
YStr(s) == [tag |-> "str", str |-> s, items |-> <<>>]
YBool(s) == [tag |-> "bool", str |-> s, items |-> <<>>]
YInt(s) == [tag |-> "int", str |-> s, items |-> <<>>]
YMap == [tag |-> "map", str |-> "", items |-> <<>>]
YSeq(items) == [tag |-> "seq", str |-> "", items |-> items]
YError == [tag |-> "error", str |-> "", items |-> <<>>]

IsDigits(s) == s # "" /\ \A i \in 1..Len(s) : Contains(Digits, CharAt(s, i))

\* yaml.v3's resolution of a plain (unquoted) scalar
yamlResolve(s) ==
    IF s \in {"", "~", "null", "Null", "NULL"} THEN YNull
    ELSE IF s \in {"true", "True", "TRUE"} THEN YBool("true")
    ELSE IF s \in {"false", "False", "FALSE"} THEN YBool("false")
    ELSE IF IsDigits(s) \/ (Len(s) > 1 /\ Contains("+-", CharAt(s, 1))
                            /\ IsDigits(Tail(s)))
    THEN YInt(s)
    ELSE YStr(s)

\* A plain scalar: it may not hold ": " where a mapping value is not allowed,
\* and inside a sequence it then is a mapping.
yamlPlain(plain, nested) ==
    IF Contains(plain, ": ") \/ HasSuffix(plain, ":")
    THEN (IF nested THEN YMap ELSE YError)
    ELSE yamlResolve(plain)

\* The text of a scalar before its comment
yamlUncomment(t, cut) ==
    IF cut = 0 THEN t ELSE Trim(SubSeq(t, 1, cut - 1), " \t")

\* A scalar of the front matter whose first character is c.  A quoted scalar
\* is the text between its quotes (the model's texts hold no escapes); "*"
\* begins an alias, and an alias to an anchor that is not defined, or with no
\* name, is an error, as are the reserved indicators.
yamlToken(t, c, nested) ==
    IF c = "\"" \/ c = "'"
    THEN IF /\ Len(t) >= 2
            /\ CharAt(t, Len(t)) = c
            /\ ~Contains(SubSeq(t, 2, Len(t) - 1), c)
         THEN YStr(SubSeq(t, 2, Len(t) - 1)) ELSE YError
    ELSE IF Contains("*@%", c) THEN YError
    ELSE IF c = "#" THEN YNull
    ELSE yamlPlain(yamlUncomment(t, Index(t, " #")), nested)

yamlScalar(t, nested) ==
    IF t = "" THEN YNull ELSE yamlToken(t, CharAt(t, 1), nested)

\* The elements of a flow sequence "[a, b]"
yamlFlow(elems) ==
    IF \E i \in 1..Len(elems) :
          yamlScalar(Trim(elems[i], " \t"), TRUE).tag = "error"
    THEN YError
    ELSE YSeq([i \in 1..Len(elems) |-> yamlScalar(Trim(elems[i], " \t"), TRUE)])

yamlFlowInner(inner) ==
    yamlFlow(IF inner = "" THEN <<>> ELSE Split(inner, ","))

\* A value: a flow sequence of scalars, or a scalar
yamlNode(t, nested) ==
    IF HasPrefix(t, "[")
    THEN IF ~HasSuffix(t, "]") THEN YError
         ELSE yamlFlowInner(Trim(SubSeq(t, 2, Len(t) - 1), " \t"))
    ELSE yamlScalar(t, nested)

\* The end of the key of a line of a block mapping: the first ":" followed by
\* a space or by the end of the line; 0 when there is none.
KeyEnd(t) ==
    LET hits == {i \in 1..Len(t) :
                    /\ CharAt(t, i) = ":"
                    /\ (i = Len(t) \/ Contains(" \t", CharAt(t, i + 1)))}
    IN  IF hits = {} THEN 0 ELSE CHOOSE i \in hits : \A j \in hits : i <= j

\* A "- item" entry: it extends the sequence of the last key, which must have
\* no value of its own.
yamlItem(item, acc) ==
    IF ~acc.open \/ item.tag = "error" THEN [acc EXCEPT !.err = TRUE]
    ELSE [acc EXCEPT !.vals[Len(acc.keys)] = YSeq(@.items \o <<item>>)]

\* A "key: value" or "key:" entry
yamlPair(key, rest, value, acc) ==
    IF (\E i \in 1..Len(acc.keys) : acc.keys[i] = key) \/ value.tag = "error"
    THEN [acc EXCEPT !.err = TRUE]
    ELSE [err |-> FALSE, keys |-> Append(acc.keys, key),
          vals |-> Append(acc.vals, value), open |-> rest = ""]

yamlKey(key, rest, acc) == yamlPair(key, rest, yamlNode(rest, FALSE), acc)

yamlEntry(t, colon, acc) ==
    IF colon = 0 THEN [acc EXCEPT !.err = TRUE]
    ELSE yamlKey(SubSeq(t, 1, colon - 1),
                 Trim(SubSeq(t, colon + 1, Len(t)), " \t"), acc)

\* One line of a front matter: "key: value" at the margin, "key:" followed by
\* the "- item" entries of a block sequence, a blank line or a comment.  The
\* model's texts hold no other indented line.
yamlLine(line, t, acc) ==
    IF t = "" \/ HasPrefix(t, "#") THEN acc
    ELSE IF t = "-" \/ HasPrefix(t, "- ")
    THEN yamlItem(yamlNode(Trim(SubSeq(t, 2, Len(t)), " \t"), TRUE), acc)
    ELSE IF HasPrefix(line, " ") THEN [acc EXCEPT !.err = TRUE]
    ELSE yamlEntry(t, KeyEnd(t), acc)

\* The lines of a front matter, decoded in order
RECURSIVE yamlLines(_, _)
yamlLines(lines, acc) ==
    IF lines = <<>> \/ acc.err THEN acc
    ELSE yamlLines(Tail(lines),
                   yamlLine(Head(lines), Trim(Head(lines), " \t\r"), acc))

\* yaml.Unmarshal([]byte(text), &frontmatter), frontmatter a
\* map[string]interface{}
yamlUnmarshal(text) ==
    yamlLines(Split(text, "\n"),
              [err |-> FALSE, keys |-> <<>>, vals |-> <<>>, open |-> FALSE])

\* frontmatter[key]; nil when the key is absent
Frontmatter(fm, key) ==
    IF \E i \in 1..Len(fm.keys) : fm.keys[i] = key
    THEN fm.vals[CHOOSE i \in 1..Len(fm.keys) : fm.keys[i] = key]
    ELSE YNull

\* value.(string), value.(bool) and value.([]interface{}) with its strings
AsString(value, otherwise) == IF value.tag = "str" THEN value.str ELSE otherwise

AsBool(value, otherwise) ==
    IF value.tag = "bool" THEN value.str = "true" ELSE otherwise

AsStrings(value, otherwise) ==
    IF value.tag = "seq"
    THEN [i \in 1..Len(SelectSeq(value.items, LAMBDA g : g.tag = "str")) |->
            SelectSeq(value.items, LAMBDA g : g.tag = "str")[i].str]
    ELSE otherwise

\* The first position from p on that holds no character of set, Len(text) + 1
\* when there is none
Skip(text, p, set) ==
    LET stops == {q \in p..Len(text) : ~Contains(set, CharAt(text, q))}
    IN  IF stops = {} THEN Len(text) + 1
        ELSE CHOOSE q \in stops : \A x \in stops : q <= x

\* The position of the line feed that ends the line of p, Len(text) + 1 on the
\* last line
LineEnd(text, p) ==
    LET ends == {q \in p..Len(text) : CharAt(text, q) = "\n"}
    IN  IF ends = {} THEN Len(text) + 1
        ELSE CHOOSE q \in ends : \A x \in ends : q <= x

\* The start of (.+) after the greedy \s* that ran from r + 1 to w: w itself,
\* or, when \s* ran to the end of the text, the last character it can give
\* back that is not a line feed; 0 when there is none.
ValueStart(text, r, w) ==
    LET back == {x \in (r + 1)..Len(text) : CharAt(text, x) # "\n"}
    IN  IF w <= Len(text) THEN w
        ELSE IF back = {} THEN 0
        ELSE CHOOSE x \in back : \A y \in back : y <= x

RegexMatch(text, p, q, r, v) ==
    IF /\ p + 1 <= Len(text) /\ SubSeq(text, p, p + 1) = "//"
       /\ q <= Len(text) /\ CharAt(text, q) = "@"
       /\ r > q + 1
       /\ r <= Len(text) /\ CharAt(text, r) = ":"
       /\ v # 0
    THEN [ok |-> TRUE, key |-> SubSeq(text, q + 1, r - 1),
          value |-> SubSeq(text, v, LineEnd(text, v) - 1),
          end |-> LineEnd(text, v)]
    ELSE [ok |-> FALSE, key |-> "", value |-> "", end |-> 0]

RegexValue(text, p, q, r) ==
    RegexMatch(text, p, q, r,
               ValueStart(text, r, Skip(text, r + 1, Whitespace)))

RegexKey(text, p, q) == RegexValue(text, p, q, Skip(text, q + 1, WordChars))

\* A match of commentRegex, (?m)^//\s*@(\w+):\s*(.+)$, that begins at the
\* line start p
commentRegex(text, p) == RegexKey(text, p, Skip(text, p + 2, Whitespace))

\* commentRegex.FindAllStringSubmatch(content, -1), searched from p on
RECURSIVE FindAllStringSubmatch(_, _)
NextMatch(text, p, m) ==
    IF m.ok THEN <<m>> \o FindAllStringSubmatch(text, m.end + 1)
    ELSE FindAllStringSubmatch(text, LineEnd(text, p) + 1)

FindAllStringSubmatch(text, p) ==
    IF p > Len(text) THEN <<>> ELSE NextMatch(text, p, commentRegex(text, p))

\* One match of the loop of extractMetadataFromComments
CommentValue(key, value, acc) ==
    IF key = "alwaysApply"
    THEN [acc EXCEPT !.alwaysApply = (ToLower(value) = "true")]
    ELSE IF key = "globs"
    THEN [acc EXCEPT !.globs =
            @ \o [i \in 1..Len(Split(value, ",")) |->
                    TrimSpace(Split(value, ",")[i])]]
    ELSE acc

\* The loop of extractMetadataFromComments over the matches
RECURSIVE CommentMetadata(_, _)
CommentMetadata(matches, acc) ==
    IF matches = <<>> THEN acc
    ELSE CommentMetadata(Tail(matches),
            CommentValue(Head(matches).key, TrimSpace(Head(matches).value), acc))

\* An extraction that finds no metadata
NoCommentMetadata(content) == [alwaysApply |-> FALSE, globs |-> <<>>]

extractMetadataFromComments(content) ==
    CommentMetadata(FindAllStringSubmatch(content, 1),
                    [alwaysApply |-> FALSE, globs |-> <<>>])

\* No rule yet
NoRule == [FilePath |-> "", Name |-> "", Description |-> "", Content |-> "",
           AlwaysApply |-> FALSE, Globs |-> <<>>]

\* A parse that returns no fragment when the front matter does not decode
FailOnBadMetadata(rule, frontmatter, body) ==
    IF frontmatter.err THEN NoRule
    ELSE [rule EXCEPT
            !.Name = AsString(Frontmatter(frontmatter, "name"), @),
            !.Description = AsString(Frontmatter(frontmatter, "description"), @),
            !.AlwaysApply = AsBool(Frontmatter(frontmatter, "alwaysApply"), @),
            !.Globs = AsStrings(Frontmatter(frontmatter, "globs"), @),
            !.Content = TrimSpace(body)]

\* parseMDCFile, once the front matter is decoded
WithFrontmatter(rule, frontmatter, body) ==
    IF frontmatter.err THEN [rule EXCEPT !.Content = TrimSpace(body)]
    ELSE [rule EXCEPT
            !.Name = AsString(Frontmatter(frontmatter, "name"), @),
            !.Description = AsString(Frontmatter(frontmatter, "description"), @),
            !.AlwaysApply = AsBool(Frontmatter(frontmatter, "alwaysApply"), @),
            !.Globs = AsStrings(Frontmatter(frontmatter, "globs"), @),
            !.Content = TrimSpace(body)]

\* parseMDCFile, once the text is split at "---"
WithParts(rule, contentStr, parts) ==
    IF Len(parts) >= 3
    THEN WithFrontmatter(rule, yamlUnmarshal(parts[2]), parts[3])
    ELSE [rule EXCEPT !.Content = contentStr]

\* parseMDCFile, of a text that does not begin with "---"
WithComments(rule, contentStr, meta) ==
    [rule EXCEPT !.Content = contentStr,
                 !.AlwaysApply = meta.alwaysApply,
                 !.Globs = meta.globs]

\* parseMDCFile, of the file at filePath whose text is contentStr
parseMDCFile(filePath, contentStr) ==
    LET rule == [NoRule EXCEPT !.FilePath = filePath,
                               !.Name = TrimSuffix(Base(filePath), ".mdc")]
    IN  IF HasPrefix(contentStr, "---")
        THEN WithParts(rule, contentStr, SplitN(contentStr, "---", 3))
        ELSE WithComments(rule, contentStr,
                          extractMetadataFromComments(contentStr))

\* The fragment files the round trip is checked on: a front matter with each
\* combination of these lines, in the style of examples/build-test, and files
\* without front matter whose metadata is in comments.
NameLines == {"", "name: api\n", "name: \"7\"\n"}

DescriptionLines ==
    {"", "description: React Component Rules\n", "description: \"Rules: TS\"\n"}

GlobsLines ==
    {"", "globs: [\"**/*.tsx\", \"**/*.jsx\"]\n", "globs:\n  - src/**\n"}

AlwaysApplyLines == {"", "alwaysApply: true\n", "alwaysApply: false\n"}

Bodies == {"# Body", "\n# Body\n"}

\* Fragments for the comment fallback: comment lines without a front matter,
\* after a delimiter that is never closed, and below a closed front matter.
FallbackTexts ==
    {"// @globs: a.ts, b.ts\n# Body",
     "// @alwaysApply: true\n// @globs: a.ts, b.ts\n# Body\n",
     "// @alwaysApply: true\n// @alwaysApply: false\n# Body",
     "// @alwaysApply: false\n# Body",
     "// @other: x\n# Body",
     "// @globs: a.ts, , b.ts\n# Body",
     "// @globs: a.ts,\n# Body",
     "---\n// @alwaysApply: true\n// @globs: a.ts, b.ts\n# Body",
     "---\nname: api\n# Body\n",
     "---\nname: api\n---\n// @alwaysApply: true\n// @globs: a.ts, b.ts\n# Body"}

\* Fragments whose front matter does not decode, or decodes with a value of
\* another type than the key's, or with blank globs
MalformedTexts ==
    {"---\nname: [api\ndescription: Rules\nalwaysApply: true\n---\n# Body\n",
     "---\ndescription: Rules\nglobs: *.ts\n---\n# Body\n",
     "---\ndescription: Rules: TS\nalwaysApply: true\n---\n# Body\n",
     "---\nname: 123\ndescription: true\nalwaysApply: true\n---\n# Body\n",
     "---\nname: api\ndescription: [a, b]\nalwaysApply: \"true\"\nglobs: a.ts\n---\n# Body\n",
     "---\nname: api\nalwaysApply: 1\nglobs: [1, a.ts, true]\n---\n# Body\n",
     "---\nname: api\nglobs: [\"a.ts\", \"\", \"b.ts\"]\n---\n# Body\n",
     "---\nname: api\nglobs:\n  - a.ts\n  - \"\"\n---\n# Body\n"}

FragmentTexts ==
    {"---\n" \o n \o d \o g \o a \o "---\n" \o b :
        n \in NameLines, d \in DescriptionLines, g \in GlobsLines,
        a \in AlwaysApplyLines, b \in Bodies}
    \cup {"// @alwaysApply: true\n# Body\n", "// @alwaysApply: true\n# Body",
          "// @globs: *.ts, *.tsx\n# Body", "// @globs: src\n# Body", "# Body\n"}
    \cup FallbackTexts \cup MalformedTexts

FragmentPath == "/p/.cursor/rules/react.mdc"

----------------------------------------------------------------------------
(* Converter.ConvertRules and buildOnce: the fan-out                       *)

\* Bound: the length of the target list.
MaxTargets == 2

\* Bound: passes over the same RuleSet.
MaxPasses == 2

\* The identifiers a caller may pass
TargetIds == {"cursor", "windsurf", "roo-code", "cline", "claude-code"}

TargetLists == UNION {[1..n -> TargetIds] : n \in 0..MaxTargets}

EmptyDisk == [p \in {} |-> ""]

NoResult == [failed |-> FALSE, msg |-> ""]

Finished(task) == task.pc \in {"done", "failed"}

\* errChan := make(chan error, len(targets)): a send proceeds while the
\* channel holds fewer errors than its capacity, and blocks otherwise.
ChanHasRoom == Len(errChan) < Len(targets)

\* wg.Wait() returns: every goroutine of the pass has called wg.Done().
WaitReturnsOnError ==
    /\ Len(tasks) = Len(targets)
    /\ \/ \A k \in 1..Len(tasks) : Finished(tasks[k])
       \/ \E k \in 1..Len(tasks) : tasks[k].pc = "failed"
WaitReturns ==
    /\ Len(tasks) = Len(targets)
    /\ \A k \in 1..Len(tasks) : Finished(tasks[k])

\* The directories os.MkdirAll(path) has to make when the directories have
\* exist: path and every parent of it that is missing
RECURSIVE MkdirAllMakes(_, _)
MkdirAllMakes(path, have) ==
    IF path \in have \/ path \in {"/", ".", ""} THEN {}
    ELSE {path} \cup MkdirAllMakes(Dir(path), have)

\* The directory op asks os.MkdirAll for: its path, or for writeFile the
\* directory of the file
MkdirAllPath(op) == IF op.kind = "mkdir" THEN op.path ELSE Dir(op.path)

\* The directories op has to make and does not find
OpMakes(op) ==
    IF op.kind = "mkdir" \/ op.mk
    THEN MkdirAllMakes(MkdirAllPath(op), diskDirs) ELSE {}

\* The system calls of op that can fail for want of permission:
\* os.MkdirAll fails in the mkdir of a directory it has to make,
\* os.WriteFile in open, and writeFile in either.
FailingCalls(op) ==
    (IF OpMakes(op) # {} THEN {"mkdir"} ELSE {})
        \cup (IF op.kind = "write" THEN {"open"} ELSE {})

\* The error of op when its system call fails for want of permission: a
\* *PathError naming the call and the path.  os.MkdirAll makes the missing
\* directories from the top, so its error names the first directory it
\* could not make, the one whose parent exists.
OsError(op, call) ==
    (IF call = "mkdir"
     THEN "mkdir " \o (CHOOSE d \in OpMakes(op) : Dir(d) \notin OpMakes(op))
     ELSE "open " \o op.path)
        \o ": permission denied"

\* The error a goroutine sends for target t when its conversion fails in the
\* given system call of op: the error as the converter or the tool returned
\* it, after the name of the target.
TaskError(t, op, call) ==
    (IF api = "ConvertRules" THEN "failed to convert to "
     ELSE "failed to build ") \o t \o ": " \o op.wrap \o OsError(op, call)

\* What the build returns once the channel is closed: ConvertRules joins every
\* error, buildOnce returns the first one it receives.
ReturnValue(errors) ==
    IF errors = <<>> THEN NoResult
    ELSE IF api = "ConvertRules"
    THEN [failed |-> TRUE, msg |-> "conversion errors: " \o Join(errors, "; ")]
    ELSE [failed |-> TRUE, msg |-> errors[1]]

InitConverter ==
    /\ api \in {"ConvertRules", "buildOnce"}
    /\ ruleSet \in RuleSets
    /\ targets \in TargetLists
    /\ api = "buildOnce" => Len(targets) > 0
    /\ cpc = "spawn"
    /\ tasks = <<>>
    /\ errChan = <<>>
    /\ outcome = NoResult
    /\ disk = EmptyDisk
    /\ diskDirs = {outputDir}
    /\ pass = 1
    /\ prevDisk = EmptyDisk
    /\ prevOk = FALSE

ConverterIdle ==
    /\ api = "ConvertRules"
    /\ ruleSet = RulesGlobalOnly
    /\ targets = <<>>
    /\ cpc = "idle"
    /\ tasks = <<>>
    /\ errChan = <<>>
    /\ outcome = NoResult
    /\ disk = EmptyDisk
    /\ diskDirs = {outputDir}
    /\ pass = 0
    /\ prevDisk = EmptyDisk
    /\ prevOk = FALSE

\* if len(targets) == 0 { return fmt.Errorf("no target tools specified") }
ReturnNoTargets ==
    /\ UNCHANGED notConverter
    /\ cpc = "spawn"
    /\ api = "ConvertRules"
    /\ targets = <<>>
    /\ cpc' = "returned"
    /\ outcome' = [failed |-> TRUE, msg |-> "no target tools specified"]
    /\ UNCHANGED <<api, ruleSet, targets, tasks, errChan, disk, diskDirs, pass,
                   prevDisk, prevOk>>

\* One iteration of the loop over targets: wg.Add(1); go func(target) {...}
Spawn ==
    /\ UNCHANGED notConverter
    /\ cpc = "spawn"
    /\ Len(tasks) < Len(targets)
    /\ tasks' = Append(tasks, [target |-> targets[Len(tasks) + 1], pc |-> "start",
                               plan |-> <<>>, next |-> 1])
    /\ cpc' = IF Len(tasks) + 1 = Len(targets) THEN "wait" ELSE "spawn"
    /\ UNCHANGED <<api, ruleSet, targets, errChan, outcome, disk, diskDirs, pass,
                   prevDisk, prevOk>>

\* A goroutine of ConvertRules begins: the lookup in toolConfigs, then the
\* start of convertToTool, whose ranges over rules.FolderRules visit the
\* folders in some order.
TaskStart(k, order) ==
    /\ UNCHANGED notConverter
    /\ api = "ConvertRules"
    /\ k \in 1..Len(tasks)
    /\ tasks[k].pc = "start"
    /\ order \in KeyOrders(ruleSet.FolderRules)
    /\ IF tasks[k].target \notin ToolConfigs
       THEN /\ ChanHasRoom
            /\ tasks' = [tasks EXCEPT ![k].pc = "failed"]
            /\ errChan' = Append(errChan,
                                 "unsupported target tool: " \o tasks[k].target)
       ELSE /\ LET plan == convertToTool(ruleSet, tasks[k].target, order)
               IN  tasks' = [tasks EXCEPT ![k].plan = plan,
                                          ![k].pc = IF plan = <<>> THEN "done"
                                                    ELSE "write"]
            /\ UNCHANGED errChan
    /\ UNCHANGED <<api, ruleSet, targets, cpc, outcome, disk, diskDirs, pass,
                   prevDisk, prevOk>>

\* A goroutine of buildOnce begins t.Build(config).
BuildStart(k) ==
    /\ UNCHANGED notConverter
    /\ api = "buildOnce"
    /\ k \in 1..Len(tasks)
    /\ tasks[k].pc = "start"
    /\ LET plan == ToolBuild(tasks[k].target, ProjectConfig(ruleSet))
       IN  tasks' = [tasks EXCEPT ![k].plan = plan,
                                  ![k].pc = IF plan = <<>> THEN "done" ELSE "write"]
    /\ UNCHANGED <<api, ruleSet, targets, cpc, errChan, outcome, disk, diskDirs,
                   pass, prevDisk, prevOk>>

\* The next call of a conversion.  It succeeds (res = "ok"): the missing
\* directories are made and a write replaces the file.  Or one of its system
\* calls fails: the goroutine sends its error and ends, and when the call
\* was the open of writeFile the directories have been made.
TaskWrite(k, res) ==
    /\ UNCHANGED notConverter
    /\ k \in 1..Len(tasks)
    /\ tasks[k].pc = "write"
    /\ LET op == tasks[k].plan[tasks[k].next]
       IN  IF res = "ok"
           THEN /\ disk' = IF op.kind = "write"
                           THEN [p \in DOMAIN disk \cup {op.path} |->
                                    IF p = op.path THEN op.content ELSE disk[p]]
                           ELSE disk
                /\ diskDirs' = diskDirs \cup OpMakes(op)
                /\ tasks' = [tasks EXCEPT
                                ![k].next = @ + 1,
                                ![k].pc = IF tasks[k].next = Len(tasks[k].plan)
                                          THEN "done" ELSE "write"]
                /\ UNCHANGED errChan
           ELSE /\ res \in FailingCalls(op)
                /\ ChanHasRoom
                /\ tasks' = [tasks EXCEPT ![k].pc = "failed"]
                /\ errChan' = Append(errChan,
                                     TaskError(tasks[k].target, op, res))
                /\ diskDirs' = IF res = "open" THEN diskDirs \cup OpMakes(op)
                               ELSE diskDirs
                /\ UNCHANGED disk
    /\ UNCHANGED <<api, ruleSet, targets, cpc, outcome, pass, prevDisk, prevOk>>

\* wg.Wait(); close(errChan); the errors are received; return.
JoinAndReturn ==
    /\ UNCHANGED notConverter
    /\ cpc = "wait"
    /\ WaitReturns
    /\ cpc' = "returned"
    /\ outcome' = ReturnValue(errChan)
    /\ errChan' = <<>>
    /\ UNCHANGED <<api, ruleSet, targets, tasks, disk, diskDirs, pass, prevDisk,
                   prevOk>>

\* The same build is run again, nothing having changed.
NextPass ==
    /\ UNCHANGED notConverter
    /\ cpc = "returned"
    /\ pass < MaxPasses
    /\ \A k \in 1..Len(tasks) : Finished(tasks[k])
    /\ pass' = pass + 1
    /\ prevDisk' = disk
    /\ prevOk' = ~outcome.failed
    /\ cpc' = "spawn"
    /\ tasks' = <<>>
    /\ errChan' = <<>>
    /\ outcome' = NoResult
    /\ UNCHANGED <<api, ruleSet, targets, disk, diskDirs>>

ConverterNext ==
    \/ ReturnNoTargets
    \/ Spawn
    \/ \E k \in 1..Len(tasks) :
          \E order \in KeyOrders(ruleSet.FolderRules) : TaskStart(k, order)
    \/ \E k \in 1..Len(tasks) : BuildStart(k)
    \/ \E k \in 1..Len(tasks), res \in {"ok", "mkdir", "open"} :
           TaskWrite(k, res)
    \/ JoinAndReturn
    \/ NextPass

\* No function is being called.
CallIdle ==
    /\ fpc = "idle"
    /\ fn = ""
    /\ arg = ""
    /\ ret = ""

\* Nothing is being imported.
ImportIdle ==
    /\ ipc = "idle"
    /\ isource = RulesGlobalOnly
    /\ idisk = EmptyDisk
    /\ iplan = <<>>
    /\ icopied = 0
    /\ ibuf = ""
    /\ imports = 0
    /\ ibefore = EmptyDisk

\* Nothing is being parsed.
ParserIdle ==
    /\ mpc = "idle"
    /\ mfile = [path |-> "", text |-> ""]
    /\ mfirst = NoRule
    /\ mtext = ""
    /\ msecond = NoRule

\* The Watcher is not running.
WatcherIdle ==
    /\ loop = "off"
    /\ watched = {}
    /\ exists = {}
    /\ Events = <<>>
    /\ timers = <<>>
    /\ debounceTimer = 0
    /\ rebuild = <<>>
    /\ cancelled = FALSE
    /\ closed = FALSE
    /\ exited = FALSE
    /\ nChanges = 0
    /\ version = 0
    /\ snapshot = <<>>
    /\ bursts = <<>>
    /\ sinceLast = 0
    /\ failures = 0
    /\ woutput = ""
    /\ wtargets = <<>>
    /\ wfiles = <<>>
    /\ pending = <<>>
    /\ parsing = <<>>
    /\ initial = [pc |-> "off", parse |-> <<>>, ops |-> <<>>]

ConvInit == WatcherIdle /\ InitConverter /\ ParserIdle /\ CallIdle /\ ImportIdle

ConvSpec == ConvInit /\ [][ConverterNext]_<<wvars, cvars, mvars, fvars, ivars>>

----------------------------------------------------------------------------
(* The round trip of a fragment: parse, pass through, parse again          *)

InitParser ==
    /\ mpc = "input"
    /\ mfile \in [path : {FragmentPath}, text : FragmentTexts]
    /\ mfirst = NoRule
    /\ mtext = ""
    /\ msecond = NoRule

\* parseRulesDir reads the fragment: rule, err := p.parseMDCFile(path)
ParseFragment ==
    /\ UNCHANGED notParser
    /\ mpc = "input"
    /\ mfirst' = parseMDCFile(mfile.path, mfile.text)
    /\ mpc' = "parsed"
    /\ UNCHANGED <<mfile, mtext, msecond>>

\* convertToCursor passes it through: mdcContent := c.buildMDCContent(rule)
Reserialize ==
    /\ UNCHANGED notParser
    /\ mpc = "parsed"
    /\ mtext' = buildMDCContent(mfirst)
    /\ mpc' = "written"
    /\ UNCHANGED <<mfile, mfirst, msecond>>

\* The written fragment is parsed again.
Reparse ==
    /\ UNCHANGED notParser
    /\ mpc = "written"
    /\ msecond' = parseMDCFile(mfile.path, mtext)
    /\ mpc' = "reparsed"
    /\ UNCHANGED <<mfile, mfirst, mtext>>

ParserNext == ParseFragment \/ Reserialize \/ Reparse

MdcInit == WatcherIdle /\ ConverterIdle /\ InitParser /\ CallIdle /\ ImportIdle

MdcSpec == MdcInit /\ [][ParserNext]_<<wvars, cvars, mvars, fvars, ivars>>

----------------------------------------------------------------------------
(* Calls of single functions and commands on inputs of a bounded family    *)

\* Bound: the fragments of a RuleSet handed to buildGlobalContent.
MaxFragments == 2

\* The lists of at most MaxFragments distinct fragments
FragmentLists ==
    UNION {{l \in [1..n -> {FragA, FragB, FragC, FragD}] :
               \A i, j \in 1..n : i # j => l[i] # l[j]} : n \in 0..MaxFragments}

FolderMaps ==
    {[k \in S |-> IF k = "f" THEN "FBody" ELSE "GBody"] : S \in SUBSET {"f", "g"}}

FlattenRuleSets ==
    [GlobalRules : {"", "G"}, FolderRules : FolderMaps, MDCRules : FragmentLists]

\* Bound: the length of a fragment name handed to sanitizeFilename.
MaxNameLen == 3

\* The characters fragment names are made of
NameChars == {"A", "b", "-", " ", "\t", ":", "?", "/"}

\* The names of at most n characters
RECURSIVE NamesUpTo(_)
NamesUpTo(n) ==
    IF n = 0 THEN {""}
    ELSE NamesUpTo(n - 1) \cup {s \o c : s \in NamesUpTo(n - 1), c \in NameChars}

SlugNames == NamesUpTo(MaxNameLen) \cup {"My Rule: Test?"}

\* TargetTool.IsValid
IsValid(t) == t \in {"cursor", "windsurf", "roo-code", "cline"}

\* The first position of the loop over the targets at which the test fails,
\* 0 when it fails nowhere; passed[i] is the outcome of the test on target i
FirstNot(passed) ==
    IF \A i \in 1..Len(passed) : passed[i] THEN 0
    ELSE CHOOSE i \in 1..Len(passed) :
            ~passed[i] /\ \A j \in 1..(i - 1) : passed[j]

\* What a build command does with its --target values: an error, or the
\* targets it hands to the conversion
Rejected(msg) == [failed |-> TRUE, msg |-> msg, targetTools |-> <<>>]
Accepted(list) == [failed |-> FALSE, msg |-> "", targetTools |-> list]

\* targetTool.IsValid() for each --target value
ValidFlags(list) == [i \in 1..Len(list) |-> IsValid(list[i])]

\* buildCmd's RunE of main.go: the validation of the --target values
buildCmd(list) ==
    IF Len(list) = 0 THEN Rejected("at least one target must be specified")
    ELSE IF FirstNot(ValidFlags(list)) # 0
    THEN Rejected("unsupported target: " \o list[FirstNot(ValidFlags(list))])
    ELSE Accepted(list)

\* createTool knows the name
createTool(name) == name \in ToolNames

\* createTool(target) succeeds, for each target
ToolFlags(list) == [i \in 1..Len(list) |-> createTool(list[i])]

\* runBuild and tools.Build of the older command: the tools made for the
\* --target values
runBuild(list) ==
    IF Len(list) = 0
    THEN Accepted(<<"cursor", "windsurf", "roo-code", "cline", "claude-code">>)
    ELSE IF FirstNot(ToolFlags(list)) # 0
    THEN Rejected("failed to create tool " \o list[FirstNot(ToolFlags(list))]
                  \o ": unknown tool: " \o list[FirstNot(ToolFlags(list))])
    ELSE Accepted(list)

\* The --target values of a command line: the five identifiers and one that
\* no tool has
CliTargets ==
    UNION {[1..n -> TargetIds \cup {"vscode"}] : n \in 0..MaxTargets}

\* The command line of the older build command: --target values and --watch
RunBuildInputs == [targets : CliTargets, watch : BOOLEAN]

\* Bound: the events and errors the watcher of watchAndBuild delivers in a
\* run.
MaxWatchEvents == 2

\* The paths watchAndBuild adds to its watcher in that project: .cursorrules,
\* which exists, and the rules directory of each of config.CursorDirs
BuildWatchPaths == <<"/p/.cursorrules", "/p/.cursor/rules">>

\* The error of watchAndBuild when watcher.Add(path) fails, the watches of
\* the user being used up
AddError(path) ==
    (IF Base(path) = ".cursorrules" THEN "failed to watch .cursorrules: "
     ELSE "failed to watch rules directory " \o path \o ": ")
        \o "no space left on device"

\* watchAndBuild in progress: the tools it builds with, the paths it has yet
\* to add to its watcher, whether its watcher has been closed, which only
\* the deferred watcher.Close() does, the configuration it reloaded last
\* and, as history, the builds that succeeded, the events and errors it has
\* received (events), the errors among them (errs) and the failures it has
\* logged
Watching(list, builds, events) ==
    [failed |-> FALSE, msg |-> "", targetTools |-> list, builds |-> builds,
     events |-> events, errs |-> 0, toAdd |-> <<>>, logged |-> 0,
     closed |-> FALSE, newConfig |-> RulesGlobalOnly]

\* What loadProjectConfig may find in the project when an event has been
\* received: the rules as they were, or none, the rules file having been
\* emptied
ReloadedConfigs == {RulesGlobalOnly, NoRules}

----------------------------------------------------------------------------
(* The import command (main.go: importCmd, performImport)                  *)

\* The source project of the import and the project imported into
sourceDir == "/p"
targetDir == "/t"

\* The import is run at most MaxImports times in a row.
MaxImports == 2

\* A merge that keeps the imported content alone
ImportedOnly(existing, content) == content

\* mergedContent of writeFileWithMerge: the content of the file that exists,
\* the marker and the imported content
mergedContent(existing, content) ==
    existing \o "\n\n# Imported content\n\n" \o content

\* One copy of performImport: the file written, the content imported and
\* whether os.MkdirAll of the file's directory comes before the write
ImportCopy(path, content, mk) == [path |-> path, content |-> content, mk |-> mk]

\* performImport: the copy of the global rules
GlobalCopies(rules) ==
    IF rules.GlobalRules # ""
    THEN <<ImportCopy(JoinPath(<<targetDir, ".cursorrules">>), rules.GlobalRules,
                      FALSE)>>
    ELSE <<>>

\* performImport: the copies of the folder rules, in the order the range
\* over sourceRules.FolderRules visits them
FolderCopies(rules, order) ==
    [i \in 1..Len(order) |->
        ImportCopy(JoinPath(<<targetDir, order[i], ".cursor", "rules", "rules">>),
                   rules.FolderRules[order[i]], TRUE)]

\* performImport: where the fragment read from filePath is copied to
MdcTarget(filePath) ==
    JoinPath(<<targetDir,
               IF Rel(sourceDir, filePath).ok
               THEN Rel(sourceDir, filePath).path
               ELSE JoinPath(<<".cursor", "rules", Base(filePath)>>)>>)

\* performImport: the copies of the fragments; main.go's buildMDCContent is
\* the same text as the Converter's
MdcCopies(mdc) ==
    [i \in 1..Len(mdc) |->
        ImportCopy(MdcTarget(mdc[i].FilePath), buildMDCContent(mdc[i]), TRUE)]

\* performImport(sourceDir, targetDir): the copies it makes, in order
performImport(rules, order) ==
    GlobalCopies(rules) \o FolderCopies(rules, order) \o MdcCopies(rules.MDCRules)

\* Files the target project may hold before the first import: destinations of
\* the import and a file the import has no business with.
TargetFiles ==
    {"/t/.cursorrules", "/t/f/.cursor/rules/rules", "/t/.cursor/rules/A.mdc",
     "/t/README.md"}
TargetDisks == UNION {[S -> {"Old"}] : S \in SUBSET TargetFiles}

\* The bytes a write of data may have written when it returns: all of them,
\* or, the write failing, none or the first half
WrittenBytes(data) == {0, Len(data) \div 2, Len(data)}

InitImport ==
    /\ ipc = "start"
    /\ isource = RulesGlobalOnly
    /\ idisk \in TargetDisks
    /\ iplan = <<>>
    /\ icopied = 0
    /\ ibuf = ""
    /\ imports = 0
    /\ ibefore = idisk

\* importCmd's RunE up to the first copy: the source project is parsed; a
\* source that cannot be parsed ends the import before anything is written.
ImportStart(rules, order, ok) ==
    /\ UNCHANGED notImport
    /\ ipc \in {"start", "done", "failed"}
    /\ imports < MaxImports
    /\ imports' = imports + 1
    /\ isource' = rules
    /\ ibefore' = idisk
    /\ icopied' = 0
    /\ ibuf' = ""
    /\ iplan' = IF ok THEN performImport(rules, order) ELSE <<>>
    /\ ipc' = IF ok THEN "copy" ELSE "failed"
    /\ UNCHANGED idisk

\* os.MkdirAll of the directory of the next copy, in the loops over the
\* folder rules and the fragments: its error ends the import.
ImportMkdir(ok) ==
    /\ UNCHANGED notImport
    /\ ipc = "copy"
    /\ icopied < Len(iplan)
    /\ iplan[icopied + 1].mk
    /\ ipc' = IF ok THEN "stat" ELSE "failed"
    /\ UNCHANGED <<isource, idisk, iplan, icopied, ibuf, imports, ibefore>>

\* writeFileWithMerge is entered: os.Stat(path).  A file that exists is read
\* next; for one that does not, the imported content is what is written.
ImportStat ==
    /\ UNCHANGED notImport
    /\ icopied < Len(iplan)
    /\ \/ ipc = "stat"
       \/ ipc = "copy" /\ ~iplan[icopied + 1].mk
    /\ IF iplan[icopied + 1].path \in DOMAIN idisk
       THEN /\ ipc' = "read"
            /\ UNCHANGED ibuf
       ELSE /\ ipc' = "open"
            /\ ibuf' = iplan[icopied + 1].content
    /\ UNCHANGED <<isource, idisk, iplan, icopied, imports, ibefore>>

\* existing, err := os.ReadFile(path): its error ends the import; otherwise
\* the merged content is what is written.
ImportRead(ok) ==
    /\ UNCHANGED notImport
    /\ ipc = "read"
    /\ IF ok
       THEN /\ ibuf' = mergedContent(idisk[iplan[icopied + 1].path],
                                     iplan[icopied + 1].content)
            /\ ipc' = "open"
       ELSE /\ ipc' = "failed"
            /\ UNCHANGED ibuf
    /\ UNCHANGED <<isource, idisk, iplan, icopied, imports, ibefore>>

\* os.WriteFile opens the file with O_WRONLY|O_CREATE|O_TRUNC: the file is
\* made, or emptied when it exists.  An open that fails ends the import with
\* the file as it was.
ImportOpen(ok) ==
    /\ UNCHANGED notImport
    /\ ipc = "open"
    /\ IF ok
       THEN /\ idisk' = [p \in DOMAIN idisk \cup {iplan[icopied + 1].path} |->
                            IF p = iplan[icopied + 1].path THEN "" ELSE idisk[p]]
            /\ ipc' = "write"
       ELSE /\ ipc' = "failed"
            /\ UNCHANGED idisk
    /\ UNCHANGED <<isource, iplan, icopied, ibuf, imports, ibefore>>

\* os.WriteFile writes the bytes and closes the file.  n bytes reach the
\* file: all of them, and the copy is made, or fewer, and the write has
\* failed, which ends the import.
ImportWrite(n) ==
    /\ UNCHANGED notImport
    /\ ipc = "write"
    /\ n \in WrittenBytes(ibuf)
    /\ idisk' = [idisk EXCEPT ![iplan[icopied + 1].path] = SubSeq(ibuf, 1, n)]
    /\ IF n = Len(ibuf)
       THEN /\ icopied' = icopied + 1
            /\ ipc' = "copy"
       ELSE /\ ipc' = "failed"
            /\ UNCHANGED icopied
    /\ UNCHANGED <<isource, iplan, ibuf, imports, ibefore>>

\* performImport returns nil.
ImportReturn ==
    /\ UNCHANGED notImport
    /\ ipc = "copy"
    /\ icopied = Len(iplan)
    /\ ipc' = "done"
    /\ UNCHANGED <<isource, idisk, iplan, icopied, ibuf, imports, ibefore>>

ImportNext ==
    \/ \E rules \in RuleSets : \E order \in KeyOrders(rules.FolderRules) :
           \E ok \in BOOLEAN : ImportStart(rules, order, ok)
    \/ \E ok \in BOOLEAN : ImportMkdir(ok)
    \/ ImportStat
    \/ \E ok \in BOOLEAN : ImportRead(ok)
    \/ \E ok \in BOOLEAN : ImportOpen(ok)
    \/ \E n \in WrittenBytes(ibuf) : ImportWrite(n)
    \/ ImportReturn

ImportInit ==
    WatcherIdle /\ ConverterIdle /\ ParserIdle /\ CallIdle /\ InitImport

ImportSpec == ImportInit /\ [][ImportNext]_<<wvars, cvars, mvars, fvars, ivars>>

----------------------------------------------------------------------------
(* The watched project                                                     *)

rootDir == "/p"

\* The debounce delay of Watcher.Start (500 ms), in ticks of 250 ms.
debounceDelay == 2

\* Bound: changes the environment makes to the project's files during one
\* run.
MaxChanges == 2

\* Bound: the timers a run with its output in the project is followed
\* through, beyond one for each change of the environment: the timers armed
\* by events of the program's own writes.
MaxOwnTimers == 1

\* Directories of the project tree: the root, its .cursor/rules (present from
\* the start) and a second .cursor/rules under /p/sub that may be created
\* while the Watcher runs.
RootCursor == "/p/.cursor"
RootRules == "/p/.cursor/rules"
SubDir == "/p/sub"
SubCursor == "/p/sub/.cursor"
SubRules == "/p/sub/.cursor/rules"

\* Files the environment touches.
GlobalFile == "/p/.cursorrules"
RootMdc == "/p/.cursor/rules/a.mdc"
SubMdc == "/p/sub/.cursor/rules/b.mdc"
OtherFile == "/p/README.md"
Files == {GlobalFile, RootMdc, SubMdc, OtherFile}

\* What the environment writes when it writes one of them
FileText(path) ==
    CASE path = GlobalFile -> "G"
      [] path = RootMdc -> "ABody"
      [] path = SubMdc -> "BBody"
      [] OTHER -> "R"

\* The project when the Watcher starts: a root rules file, the fragment
\* a.mdc and a file that is no rule source.
InitFiles == [p \in {GlobalFile, RootMdc, OtherFile} |-> FileText(p)]

\* os.WriteFile and os.Remove on the tracked files
SetFile(fs, path, text) ==
    [p \in DOMAIN fs \cup {path} |-> IF p = path THEN text ELSE fs[p]]
RemoveFile(fs, path) == [p \in DOMAIN fs \ {path} |-> fs[p]]

\* fsnotify.Op is a bit set; these are the single-bit values.
Ops == {"Create", "Write", "Remove", "Chmod"}

\* Files Discovery reads: the global file and the entries of .cursor/rules.
IsRuleSource(path) ==
    \/ path = GlobalFile
    \/ Base(Dir(path)) = "rules" /\ Base(Dir(Dir(path))) = ".cursor"

----------------------------------------------------------------------------
(* Watcher                                                                 *)

\* Watcher.shouldProcessEvent
shouldProcessEvent(event) ==
    IF "Write" \notin event.Op /\ "Create" \notin event.Op THEN FALSE
    ELSE LET fileName == Base(event.Name)
         IN  \/ fileName = ".cursorrules"
             \/ Contains(event.Name, ".cursor/rules/")
             \/ HasSuffix(fileName, ".mdc")

\* Watcher.addWatchPaths: the root, every .cursor directory found by the walk
\* and its rules subdirectory (Add fails, and is only logged, when that is
\* missing).
addWatchPaths(dirs) ==
    {rootDir}
        \cup {d \in dirs : Base(d) = ".cursor"}
        \cup {d \in dirs : Base(d) = "rules" /\ Base(Dir(d)) = ".cursor"
                           /\ Dir(d) \in dirs}

InFlight ==
    {i \in 1..Len(rebuild) : rebuild[i] \in {"parse", "convert", "failing"}}

Armed == {i \in 1..Len(timers) : timers[i].state = "armed"}

Expired == {i \in Armed : timers[i].rem = 0}

\* (*time.Timer).Stop: an armed timer is removed; a fired or stopped one is
\* left as it is.
StopKeepsArmed(ts, i) == ts
Stop(ts, i) ==
    IF i # 0 /\ ts[i].state = "armed"
    THEN [ts EXCEPT ![i].state = "stopped"]
    ELSE ts

Max(S) == IF S = {} THEN 0 ELSE CHOOSE x \in S : \A y \in S : y <= x

\* The newest version any rebuild's Discovery pass has read.
Covered == Max({snapshot[i] : i \in 1..Len(snapshot)})

\* A Discovery pass that has read nothing yet: it is about to read
\* .cursorrules.
NewParse == [at |-> "global", todo |-> <<>>, rules |-> NoRules]

\* The fragment files os.ReadDir lists in a rules directory of the project
RulesEntries(fs, dir) ==
    LET Listed(p) == Dir(p) = dir /\ p \in DOMAIN fs
    IN  SelectSeq(<<RootMdc, SubMdc>>, Listed)

\* Where a Discovery pass goes on after the directory it is in
AfterDir(at) == IF at \in {"rootdir", "rootfile"} THEN "subdir" ELSE "done"

\* The next read of Parser.ParseCursorRules on the watched project, with the
\* files fs and the directories dirs of that instant:
\*   "global"    readFileIfExists of .cursorrules, whose error is dropped;
\*   "rootdir"   filepath.WalkDir reaches /p/.cursor: os.Stat and os.ReadDir
\*               of its rules directory;
\*   "rootfile"  os.ReadFile of the next fragment that was listed;
\*   "subdir"    WalkDir reaches /p/sub: os.ReadDir of it and, when it holds
\*               .cursor/rules, os.ReadDir of that;
\*   "subfile"   os.ReadFile of the next fragment listed there.
\* ok says whether the read is permitted; a listed fragment that is gone or
\* unreadable, or a directory that cannot be read, ends the pass with an
\* error.  (The project holds no folder rules file.)
ParseStep(pr, ok, fs, dirs) ==
    CASE pr.at = "global" ->
           [pr EXCEPT !.at = "rootdir",
                      !.rules.GlobalRules =
                          IF ok /\ GlobalFile \in DOMAIN fs
                          THEN fs[GlobalFile] ELSE ""]
      [] pr.at \in {"rootdir", "subdir"} ->
           LET dir == IF pr.at = "rootdir" THEN RootRules ELSE SubRules
               list == IF dir \in dirs THEN RulesEntries(fs, dir) ELSE <<>>
           IN  IF ~ok THEN [at |-> "failed", todo |-> <<>>, rules |-> NoRules]
               ELSE [pr EXCEPT !.todo = list,
                               !.at = IF list = <<>> THEN AfterDir(pr.at)
                                      ELSE IF pr.at = "rootdir"
                                           THEN "rootfile" ELSE "subfile"]
      [] OTHER ->
           IF ok /\ Head(pr.todo) \in DOMAIN fs
           THEN [pr EXCEPT !.rules.MDCRules =
                               Append(@, CHOOSE rule \in
                                             {parseMDCFile(path, text) :
                                                  path \in {Head(pr.todo)},
                                                  text \in {fs[Head(pr.todo)]}} :
                                             TRUE),
                           !.todo = Tail(@),
                           !.at = IF Len(pr.todo) > 1 THEN pr.at
                                  ELSE AfterDir(pr.at)]
           ELSE [at |-> "failed", todo |-> <<>>, rules |-> NoRules]

\* The file a write of the process names: a relative path is resolved
\* against the working directory.
Resolved(op) == [op EXCEPT !.path = Abs(op.path)]

\* The operations of w.converter.ConvertRules(rules, w.targets), in order.
\* The Watcher's runs have one target, so ConvertRules starts one goroutine
\* and the operations are those of its convertToTool.
RebuildWrites(rules) ==
    IF wtargets = <<>> THEN <<>>
    ELSE convertToToolAt(woutput, rules, Head(wtargets), <<>>)

\* The operations of a plan, each with the file it names
ResolvedWrites(plan) == [k \in 1..Len(plan) |-> Resolved(plan[k])]

\* A system call of the conversion.  orphan: the file was removed after this
\* descriptor was opened.
SysCall(kind, path, content) ==
    [kind |-> kind, path |-> path, content |-> content, orphan |-> FALSE]

\* The system calls of one operation: os.MkdirAll is one; Converter.writeFile
\* is os.MkdirAll of the file's directory and then os.WriteFile, which opens
\* the file, creating or truncating it, and writes the content.
OpCalls(op) ==
    IF op.kind = "mkdir" THEN <<SysCall("mkdir", op.path, "")>>
    ELSE (IF op.mk THEN <<SysCall("mkdir", Dir(op.path), "")>> ELSE <<>>)
             \o <<SysCall("open", op.path, ""),
                  SysCall("write", op.path, op.content)>>

RECURSIVE PlanCalls(_)
PlanCalls(plan) ==
    IF plan = <<>> THEN <<>> ELSE OpCalls(Head(plan)) \o PlanCalls(Tail(plan))

\* The system calls of ConvertRules for the rules a Discovery pass returned
ConvertCalls(rules) ==
    CHOOSE calls \in {PlanCalls(resolved) :
                         resolved \in {ResolvedWrites(plan) :
                             plan \in {RebuildWrites(r) : r \in {rules}}}} : TRUE

\* The queue of events after the kernel has reported op on name: nothing is
\* reported when the directory is not watched or the watcher is closed, and
\* the kernel merges an event into an equal one at the end of its queue that
\* has not been read yet.
Deliver(q, name, op) ==
    IF Dir(name) \in watched /\ ~closed
    THEN {Append(q, [Name |-> name, Op |-> {op}])}
            \cup (IF q # <<>> /\ q[Len(q)] = [Name |-> name, Op |-> {op}]
                  THEN {q} ELSE {})
    ELSE {q}

\* The directories of the project os.MkdirAll(path) has to create
InProject(path) == path = rootDir \/ HasPrefix(path, rootDir \o "/")

RECURSIVE MissingDirs(_, _)
MissingDirs(path, dirs) ==
    IF path \in dirs \/ ~InProject(path) THEN {}
    ELSE {path} \cup MissingDirs(Dir(path), dirs)

\* A write of content at offset 0 of a file that holds old
Overlay(old, content) ==
    content \o (IF Len(old) > Len(content)
                THEN SubSeq(old, Len(content) + 1, Len(old)) ELSE "")

\* The descriptor of the write that is next in ops, if it is open on path,
\* loses its file: os.Remove(path) unlinks it
Orphaned(ops, path) ==
    IF ops # <<>> /\ Head(ops).kind = "write" /\ Head(ops).path = path
    THEN <<[Head(ops) EXCEPT !.orphan = TRUE]>> \o Tail(ops)
    ELSE ops

\* The system call c succeeds: what it does to the project's directories and
\* files, and what fsnotify reports.  A file outside the project's
\* directories is not tracked.  os.MkdirAll creates the directories that are
\* missing, and the first of them is reported when its parent is watched;
\* opening a file that exists truncates it, which is reported as a Write, and
\* opening a new one is a Create; a path that is a directory cannot be
\* opened; writing bytes is a Write, writing none is reported by nothing.
DoSysCall(c) ==
    CASE c.kind = "mkdir" ->
           /\ c.path \notin DOMAIN wfiles
           /\ exists' = exists \cup MissingDirs(c.path, exists)
           /\ Events' \in
                  IF \E d \in MissingDirs(c.path, exists) : Dir(d) \in exists
                  THEN Deliver(Events,
                               CHOOSE d \in MissingDirs(c.path, exists) :
                                   Dir(d) \in exists,
                               "Create")
                  ELSE {Events}
           /\ UNCHANGED wfiles
      [] c.kind = "open" ->
           /\ c.path \notin exists
           /\ IF Dir(c.path) \in exists
              THEN /\ wfiles' = SetFile(wfiles, c.path, "")
                   /\ Events' \in Deliver(Events, c.path,
                                          IF c.path \in DOMAIN wfiles
                                          THEN "Write" ELSE "Create")
              ELSE UNCHANGED <<wfiles, Events>>
           /\ UNCHANGED exists
      [] OTHER ->
           /\ IF Dir(c.path) \in exists
              THEN /\ wfiles' = IF c.orphan \/ c.path \notin DOMAIN wfiles
                                THEN wfiles
                                ELSE SetFile(wfiles, c.path,
                                             Overlay(wfiles[c.path], c.content))
                   /\ Events' \in IF c.content = "" THEN {Events}
                                  ELSE Deliver(Events, c.path, "Write")
              ELSE UNCHANGED <<wfiles, Events>>
           /\ UNCHANGED exists

InitWatcher ==
    /\ loop = "build"
    /\ watched = {}
    /\ exists \in {{rootDir, RootCursor, RootRules, SubDir},
                   {rootDir, RootCursor, RootRules, SubDir, SubCursor, SubRules}}
    /\ Events = <<>>
    /\ timers = <<>>
    /\ debounceTimer = 0
    /\ rebuild = <<>>
    /\ cancelled = FALSE
    /\ closed = FALSE
    /\ exited = FALSE
    /\ nChanges = 0
    /\ version = 0
    /\ snapshot = <<>>
    /\ bursts = <<>>
    /\ sinceLast = debounceDelay
    /\ failures = 0
    /\ wfiles = InitFiles
    /\ pending = <<>>
    /\ parsing = <<>>
    /\ initial = [pc |-> "parse", parse |-> NewParse, ops |-> <<>>]

\* performBuild, first half, called by buildCmd before runWatchMode: the next
\* read of parser.ParseCursorRules().
PerformBuildParse(ok) ==
    /\ UNCHANGED <<notWatcher, wfixed, wfiles, pending, parsing>>
    /\ loop = "build"
    /\ initial.pc = "parse"
    /\ \E pr \in {ParseStep(initial.parse, ok, wfiles, exists)} :
           initial' =
               CASE pr.at = "done" ->
                      [pc |-> "convert", parse |-> pr,
                       ops |-> ConvertCalls(pr.rules)]
                 [] pr.at = "failed" ->
                      [pc |-> "failing", parse |-> pr, ops |-> <<>>]
                 [] OTHER -> [initial EXCEPT !.parse = pr]
    /\ UNCHANGED <<loop, watched, exists, Events, timers, debounceTimer,
                   rebuild, cancelled, closed, exited, nChanges, version,
                   snapshot, bursts, sinceLast, failures>>

\* performBuild, second half: the next system call of
\* converter.ConvertRules(rules, targets); when it fails the conversion
\* returns the error.
PerformBuildConvert(ok) ==
    /\ UNCHANGED <<notWatcher, wfixed, pending, parsing>>
    /\ loop = "build"
    /\ initial.pc = "convert"
    /\ initial.ops # <<>>
    /\ IF ok
       THEN /\ DoSysCall(Head(initial.ops))
            /\ initial' = [initial EXCEPT !.ops = Tail(@)]
       ELSE /\ initial' = [initial EXCEPT !.pc = "failing", !.ops = <<>>]
            /\ UNCHANGED <<wfiles, exists, Events>>
    /\ UNCHANGED <<loop, watched, timers, debounceTimer, rebuild, cancelled,
                   closed, exited, nChanges, version, snapshot, bursts,
                   sinceLast, failures>>

\* performBuild returns: with nil, buildCmd goes on to runWatchMode; with an
\* error, buildCmd returns it and no Watcher is made.
PerformBuildReturn ==
    /\ UNCHANGED <<notWatcher, wfixed, wfiles, pending, parsing>>
    /\ loop = "build"
    /\ \/ /\ initial.pc = "convert"
          /\ initial.ops = <<>>
          /\ initial' = [initial EXCEPT !.pc = "done"]
          /\ loop' = "watch"
       \/ /\ initial.pc = "failing"
          /\ initial' = [initial EXCEPT !.pc = "failed"]
          /\ loop' = "failed"
    /\ UNCHANGED <<watched, exists, Events, timers, debounceTimer, rebuild,
                   cancelled, closed, exited, nChanges, version, snapshot,
                   bursts, sinceLast, failures>>

\* runWatchMode up to watcher.Start(ctx): tools.NewWatcher makes the fsnotify
\* watcher; when that fails runWatchMode returns the error and Start is
\* never called.
RunWatchMode(ok) ==
    /\ UNCHANGED <<notWatcher, wfixed, wfiles, pending, parsing, initial>>
    /\ loop = "watch"
    /\ loop' = IF ok THEN "new" ELSE "failed"
    /\ UNCHANGED <<watched, exists, Events, timers, debounceTimer, rebuild,
                   cancelled, closed, exited, nChanges, version, snapshot,
                   bursts, sinceLast, failures>>

\* Watcher.Start up to its loop: addWatchPaths.  When w.watcher.Add of the
\* root fails addWatchPaths returns the error and Start returns it before
\* the loop, with nothing watched.
Start(ok) ==
    /\ UNCHANGED <<notWatcher, wfixed, wfiles, pending, parsing, initial>>
    /\ loop = "new"
    /\ loop' = IF ok THEN "select" ELSE "failed"
    /\ watched' = IF ok THEN addWatchPaths(exists) ELSE watched
    /\ UNCHANGED <<exists, Events, timers, debounceTimer, rebuild, cancelled,
                   closed, exited, nChanges, version, snapshot, bursts,
                   sinceLast, failures>>

\* The environment creates /p/sub/.cursor/rules.  Nobody watches /p/sub, so
\* no event is delivered.
CreateRulesDir ==
    /\ UNCHANGED <<notWatcher, wfixed, wfiles, pending, parsing, initial>>
    /\ ~exited
    /\ SubRules \notin exists
    /\ exists' = exists \cup {SubCursor, SubRules}
    /\ UNCHANGED <<loop, watched, Events, timers, debounceTimer, rebuild,
                   cancelled, closed, exited, nChanges, version, snapshot,
                   bursts, sinceLast, failures>>

\* The environment changes a file: it creates it empty, writes its text,
\* changes its mode or removes it.  fsnotify delivers an event when the
\* file's directory is watched and the watcher is open.  A timer whose delay
\* has elapsed runs before a change made at the same instant is seen, and the
\* loop, blocked in select, takes a delivered event before the next change.
FsChange(path, op) ==
    /\ UNCHANGED <<notWatcher, wfixed, parsing>>
    /\ ~exited
    /\ nChanges < MaxChanges
    /\ Dir(path) \in exists
    /\ (op = "Create") = (path \notin DOMAIN wfiles)
    /\ wfiles' = CASE op = "Create" -> SetFile(wfiles, path, "")
                  [] op = "Write" -> SetFile(wfiles, path, FileText(path))
                  [] op = "Remove" -> RemoveFile(wfiles, path)
                  [] OTHER -> wfiles
    /\ IF op = "Remove"
       THEN /\ pending' = [i \in 1..Len(pending) |-> Orphaned(pending[i], path)]
            /\ initial' = [initial EXCEPT !.ops = Orphaned(@, path)]
       ELSE UNCHANGED <<pending, initial>>
    /\ Expired = {}
    /\ loop = "select" => Events = <<>>
    /\ nChanges' = nChanges + 1
    /\ Events' \in Deliver(Events, path, op)
    /\ version' = IF loop = "select" /\ ~cancelled /\ IsRuleSource(path)
                     /\ op \in {"Create", "Write"}
                  THEN version + 1 ELSE version
    /\ UNCHANGED <<loop, watched, exists, timers, debounceTimer, rebuild,
                   cancelled, closed, exited, snapshot, bursts, sinceLast,
                   failures>>

\* case event := <-w.watcher.Events
HandleEvent ==
    /\ UNCHANGED <<notWatcher, wfixed, wfiles, initial>>
    /\ loop = "select"
    /\ Events # <<>>
    /\ Events' = Tail(Events)
    /\ IF shouldProcessEvent(Head(Events))
       THEN /\ timers' = Append(Stop(timers, debounceTimer),
                                [state |-> "armed", rem |-> debounceDelay,
                                 burst |-> IF sinceLast < debounceDelay
                                           THEN Len(bursts) ELSE Len(bursts) + 1,
                                 seen |-> 0, fails |-> failures])
            /\ debounceTimer' = Len(timers) + 1
            /\ rebuild' = Append(rebuild, "none")
            /\ pending' = Append(pending, <<>>)
            /\ parsing' = Append(parsing, NewParse)
            /\ snapshot' = Append(snapshot, 0)
            /\ bursts' = IF sinceLast < debounceDelay
                         THEN [bursts EXCEPT ![Len(bursts)] = @ + 1]
                         ELSE Append(bursts, 1)
            /\ sinceLast' = 0
       ELSE UNCHANGED <<timers, debounceTimer, rebuild, pending, parsing,
                        snapshot, bursts, sinceLast>>
    /\ UNCHANGED <<loop, watched, exists, cancelled, closed, exited, nChanges,
                   version, failures>>

\* Time passes by one tick.  The loop is blocked in select and takes a
\* delivered event at once, and an elapsed timer runs at once, so neither is
\* pending when the clock moves.
Tick ==
    /\ UNCHANGED <<notWatcher, wfixed, wfiles, pending, parsing, initial>>
    /\ ~exited
    /\ Armed # {}
    /\ Expired = {}
    /\ loop = "select" => Events = <<>>
    /\ timers' = [i \in 1..Len(timers) |->
                    IF timers[i].state = "armed"
                    THEN [timers[i] EXCEPT !.rem = @ - 1] ELSE timers[i]]
    /\ sinceLast' = IF sinceLast < debounceDelay THEN sinceLast + 1 ELSE sinceLast
    /\ UNCHANGED <<loop, watched, exists, Events, debounceTimer, rebuild,
                   cancelled, closed, exited, nChanges, version, snapshot,
                   bursts, failures>>

\* The runtime runs the AfterFunc function on its own goroutine: w.rebuild()
\* starts.
TimerFire(i) ==
    /\ UNCHANGED <<notWatcher, wfixed, wfiles, pending, parsing, initial>>
    /\ ~exited
    /\ i \in Expired
    /\ timers' = [timers EXCEPT ![i].state = "fired",
                                ![i].seen = bursts[timers[i].burst]]
    /\ rebuild' = [rebuild EXCEPT ![i] = "parse"]
    /\ UNCHANGED <<loop, watched, exists, Events, debounceTimer, cancelled,
                   closed, exited, nChanges, version, snapshot, bursts,
                   sinceLast, failures>>

\* What a failed rebuild does to the loop: the error is logged in the timer's
\* function and nothing else happens.
RebuildErrorEndsLoop(l) == "returned"
AfterRebuildError(l) == l

\* Watcher.rebuild, first half: the next read of
\* w.parser.ParseCursorRules().  The pass has read every change made before
\* its latest read.
RebuildParse(i, ok) ==
    /\ UNCHANGED <<notWatcher, wfixed, wfiles, initial>>
    /\ ~exited
    /\ i \in 1..Len(rebuild)
    /\ rebuild[i] = "parse"
    /\ snapshot' = [snapshot EXCEPT ![i] = version]
    /\ \E pr \in {ParseStep(parsing[i], ok, wfiles, exists)} :
           /\ parsing' = [parsing EXCEPT ![i] = pr]
           /\ rebuild' = [rebuild EXCEPT
                             ![i] = CASE pr.at = "done" -> "convert"
                                      [] pr.at = "failed" -> "failing"
                                      [] OTHER -> "parse"]
           /\ pending' = [pending EXCEPT
                             ![i] = IF pr.at = "done"
                                    THEN ConvertCalls(pr.rules) ELSE <<>>]
    /\ UNCHANGED <<loop, watched, exists, Events, timers, debounceTimer,
                   cancelled, closed, exited, nChanges, version, bursts,
                   sinceLast, failures>>

\* Watcher.rebuild, second half: the next system call of
\* w.converter.ConvertRules(rules, w.targets).  When it fails the conversion
\* returns the error.
RebuildConvert(i, ok) ==
    /\ UNCHANGED <<notWatcher, wfixed, parsing, initial>>
    /\ ~exited
    /\ i \in 1..Len(rebuild)
    /\ rebuild[i] = "convert"
    /\ pending[i] # <<>>
    /\ IF ok
       THEN /\ DoSysCall(Head(pending[i]))
            /\ pending' = [pending EXCEPT ![i] = Tail(@)]
            /\ UNCHANGED rebuild
       ELSE /\ rebuild' = [rebuild EXCEPT ![i] = "failing"]
            /\ pending' = [pending EXCEPT ![i] = <<>>]
            /\ UNCHANGED <<wfiles, exists, Events>>
    /\ UNCHANGED <<loop, watched, timers, debounceTimer, cancelled, closed,
                   exited, nChanges, version, snapshot, bursts, sinceLast,
                   failures>>

\* Watcher.rebuild returns to the timer's function, which logs an error:
\* ConvertRules has made every call, or one of the two halves failed.
RebuildReturn(i) ==
    /\ UNCHANGED <<notWatcher, wfixed, wfiles, pending, parsing, initial>>
    /\ ~exited
    /\ i \in 1..Len(rebuild)
    /\ \/ /\ rebuild[i] = "convert"
          /\ pending[i] = <<>>
          /\ rebuild' = [rebuild EXCEPT ![i] = "done"]
          /\ UNCHANGED <<loop, failures>>
       \/ /\ rebuild[i] = "failing"
          /\ rebuild' = [rebuild EXCEPT ![i] = "failed"]
          /\ failures' = failures + 1
          /\ loop' = AfterRebuildError(loop)
    /\ UNCHANGED <<watched, exists, Events, timers, debounceTimer, cancelled,
                   closed, exited, nChanges, version, snapshot, bursts,
                   sinceLast>>

\* runWatchMode's signal goroutine: cancel().
Cancel ==
    /\ UNCHANGED <<notWatcher, wfixed, wfiles, pending, parsing, initial>>
    /\ loop = "select"
    /\ ~cancelled
    /\ cancelled' = TRUE
    /\ UNCHANGED <<loop, watched, exists, Events, timers, debounceTimer,
                   rebuild, closed, exited, nChanges, version, snapshot,
                   bursts, sinceLast, failures>>

\* case <-ctx.Done(): return w.watcher.Close()
ObserveCancel ==
    /\ UNCHANGED <<notWatcher, wfixed, wfiles, pending, parsing, initial>>
    /\ loop = "select"
    /\ cancelled
    /\ closed' = TRUE
    /\ loop' = "returned"
    /\ UNCHANGED <<watched, exists, Events, timers, debounceTimer, rebuild,
                   cancelled, exited, nChanges, version, snapshot, bursts,
                   sinceLast, failures>>

\* buildCmd returns, with performBuild's error or with what runWatchMode
\* returned, which is its own error or watcher.Start's result, and main
\* returns: the process ends and takes every goroutine with it.
ProcessExit ==
    /\ UNCHANGED <<notWatcher, wfixed, wfiles, pending, parsing, initial>>
    /\ loop \in {"returned", "failed"}
    /\ ~exited
    /\ exited' = TRUE
    /\ rebuild' = [i \in 1..Len(rebuild) |->
                     IF i \in InFlight THEN "killed" ELSE rebuild[i]]
    /\ UNCHANGED <<loop, watched, exists, Events, timers, debounceTimer,
                   cancelled, closed, nChanges, version, snapshot, bursts,
                   sinceLast, failures>>

WatcherNext ==
    \/ \E ok \in BOOLEAN : PerformBuildParse(ok)
    \/ \E ok \in BOOLEAN : PerformBuildConvert(ok)
    \/ PerformBuildReturn
    \/ \E ok \in BOOLEAN : RunWatchMode(ok)
    \/ \E ok \in BOOLEAN : Start(ok)
    \/ CreateRulesDir
    \/ \E path \in Files, op \in Ops : FsChange(path, op)
    \/ HandleEvent
    \/ Tick
    \/ \E i \in 1..Len(timers) : TimerFire(i)
    \/ \E i \in 1..Len(rebuild), ok \in BOOLEAN : RebuildParse(i, ok)
    \/ \E i \in 1..Len(rebuild), ok \in BOOLEAN : RebuildConvert(i, ok)
    \/ \E i \in 1..Len(rebuild) : RebuildReturn(i)
    \/ Cancel
    \/ ObserveCancel
    \/ ProcessExit

vars == <<wvars, cvars, mvars, fvars, ivars>>

\* --output names a directory outside the watched project and the target is
\* one whose conversion writes below the output directory only.
OutputElsewhere ==
    /\ woutput = "/out"
    /\ wtargets = <<"windsurf">>

\* syncai build --watch: performBuild and then the Watcher's run.
Init ==
    /\ InitWatcher /\ OutputElsewhere
    /\ ConverterIdle /\ ParserIdle /\ CallIdle /\ ImportIdle

Next == WatcherNext

Spec == Init /\ [][Next]_vars

\* The Go runtime runs the main goroutine, a receivable select case, an
\* elapsed timer and a started goroutine; builds terminate; time passes.  The
\* environment (changes, the interrupt signal) is under no obligation.
Fairness ==
    /\ WF_vars(PerformBuildParse(TRUE))
    /\ WF_vars(PerformBuildConvert(TRUE))
    /\ WF_vars(PerformBuildReturn)
    /\ WF_vars(RunWatchMode(TRUE))
    /\ WF_vars(Start(TRUE))
    /\ WF_vars(HandleEvent)
    /\ WF_vars(Tick)
    /\ WF_vars(\E i \in 1..Len(timers) : TimerFire(i))
    /\ WF_vars(\E i \in 1..Len(rebuild) : RebuildParse(i, TRUE))
    /\ WF_vars(\E i \in 1..Len(rebuild) : RebuildConvert(i, TRUE))
    /\ WF_vars(\E i \in 1..Len(rebuild) : RebuildReturn(i))
    /\ WF_vars(ObserveCancel)

FairSpec == Spec /\ Fairness

\* The run with the output directory in the watched project: --output left
\* at its default ".", which the process resolves against its working
\* directory, the project, or set to the project's path.  The target is one
\* of those whose conversion writes into a watched directory (roo-code and
\* cline write below .roo and .cline, which nobody watches).
OutputInRoot ==
    /\ woutput \in {".", rootDir}
    /\ wtargets \in {<<"cursor">>, <<"windsurf">>}

\* The project of this run has both .cursor/rules directories from the start.
InRootInit ==
    /\ InitWatcher /\ OutputInRoot /\ SubRules \in exists
    /\ ConverterIdle /\ ParserIdle /\ CallIdle /\ ImportIdle

\* Bound: changes the environment makes during a run whose output directory
\* is in the project.
MaxRootChanges == 1

\* The environment of this run edits the rule sources: it creates and writes
\* them.  The program's own writes arm timers without end, and a run is
\* followed until it has armed MaxOwnTimers of them.
InRootNext ==
    \/ \E ok \in BOOLEAN : PerformBuildParse(ok)
    \/ \E ok \in BOOLEAN : PerformBuildConvert(ok)
    \/ PerformBuildReturn
    \/ \E ok \in BOOLEAN : RunWatchMode(ok)
    \/ \E ok \in BOOLEAN : Start(ok)
    \/ \E path \in Files \ {OtherFile}, op \in {"Create", "Write"} :
           nChanges < MaxRootChanges /\ FsChange(path, op)
    \/ HandleEvent /\ Len(timers') <= nChanges + MaxOwnTimers
    \/ Tick
    \/ \E i \in 1..Len(timers) : TimerFire(i)
    \/ \E i \in 1..Len(rebuild), ok \in BOOLEAN : RebuildParse(i, ok)
    \/ \E i \in 1..Len(rebuild), ok \in BOOLEAN : RebuildConvert(i, ok)
    \/ \E i \in 1..Len(rebuild) : RebuildReturn(i)
    \/ Cancel
    \/ ObserveCancel
    \/ ProcessExit

InRootSpec == InRootInit /\ [][InRootNext]_vars

----------------------------------------------------------------------------
(* Discovery: Parser.ParseCursorRules over a project tree                  *)

\* The .cursor/rules directories of the project in the order filepath.WalkDir
\* reaches them, each with the names os.ReadDir returns, sorted.
ProjectRulesDirs ==
    <<[dir |-> "/p/.cursor/rules", entries |-> <<"a.mdc", "b.mdc", "notes">>],
      [dir |-> "/p/sub/.cursor/rules", entries |-> <<"c.mdc", "rules">>]>>

ProjectFiles ==
    {"/p/.cursor/rules/a.mdc", "/p/.cursor/rules/b.mdc", "/p/.cursor/rules/notes",
     "/p/sub/.cursor/rules/c.mdc", "/p/sub/.cursor/rules/rules"}

\* What os.ReadFile returns for a readable file of the project
ProjectText(path) ==
    CASE path = "/p/.cursorrules" -> "G"
      [] path = "/p/.cursor/rules/a.mdc" ->
             "---\ndescription: A rules\nalwaysApply: true\n---\nABody"
      [] path = "/p/.cursor/rules/b.mdc" -> "// @globs: *.ts\nBBody"
      [] path = "/p/.cursor/rules/notes" -> "RootBody"
      [] path = "/p/sub/.cursor/rules/c.mdc" -> "---\nglobs: a.ts\n---\nCBody"
      [] path = "/p/sub/.cursor/rules/rules" -> "SubBody"

\* A project as one Discovery pass meets it: whether .cursorrules exists, and
\* the files os.ReadFile fails on.
Projects == [global : BOOLEAN, unreadable : SUBSET ProjectFiles]

\* rules.FolderRules[relPath] = content
SetFolderRule(folderRules, relPath, content) ==
    [k \in DOMAIN folderRules \cup {relPath} |->
        IF k = relPath THEN content ELSE folderRules[k]]

\* The folder a rules directory belongs to, relative to the project root
FolderOf(rulesDir) ==
    IF Rel(rootDir, Dir(Dir(rulesDir))).ok
    THEN Rel(rootDir, Dir(Dir(rulesDir))).path
    ELSE Dir(Dir(rulesDir))

\* The error of os.ReadFile on a file the process may not read: a *PathError
\* naming the operation and the path
ReadError(path) == "open " \o path \o ": permission denied"

\* Parser.parseRulesDir: the loop over the entries, from the rules collected
\* so far; the first file that cannot be read ends it with an error.
RECURSIVE parseRulesDir(_, _, _, _)
parseRulesDir(rulesDir, entries, unreadable, rules) ==
    IF entries = <<>> THEN [err |-> "", rules |-> rules]
    ELSE IF JoinPath(<<rulesDir, Head(entries)>>) \in unreadable
    THEN [err |-> IF HasSuffix(Head(entries), ".mdc")
                  THEN "failed to parse MDC file "
                           \o JoinPath(<<rulesDir, Head(entries)>>) \o ": "
                           \o ReadError(JoinPath(<<rulesDir, Head(entries)>>))
                  ELSE ReadError(JoinPath(<<rulesDir, Head(entries)>>)),
          rules |-> rules]
    ELSE IF HasSuffix(Head(entries), ".mdc")
    THEN parseRulesDir(rulesDir, Tail(entries), unreadable,
             [rules EXCEPT !.MDCRules =
                 Append(@, parseMDCFile(JoinPath(<<rulesDir, Head(entries)>>),
                               ProjectText(JoinPath(<<rulesDir, Head(entries)>>))))])
    ELSE parseRulesDir(rulesDir, Tail(entries), unreadable,
             [rules EXCEPT !.FolderRules =
                 SetFolderRule(@, FolderOf(rulesDir),
                               ProjectText(JoinPath(<<rulesDir, Head(entries)>>)))])

\* Parser.walkCursorDirs: filepath.WalkDir stops at the first error its
\* callback returns.
RECURSIVE walkCursorDirs(_, _, _)
walkCursorDirs(dirs, unreadable, rules) ==
    IF dirs = <<>> THEN [err |-> "", rules |-> rules]
    ELSE IF parseRulesDir(Head(dirs).dir, Head(dirs).entries, unreadable, rules).err # ""
    THEN parseRulesDir(Head(dirs).dir, Head(dirs).entries, unreadable, rules)
    ELSE walkCursorDirs(Tail(dirs), unreadable,
             parseRulesDir(Head(dirs).dir, Head(dirs).entries, unreadable,
                           rules).rules)

\* What ParseCursorRules returns, given the outcome of the walk
ParseReturn(walk) ==
    IF walk.err # ""
    THEN [err |-> "failed to walk cursor directories: " \o walk.err,
          rules |-> NoRules]
    ELSE walk

\* Parser.ParseCursorRules on the project
ParseCursorRules(project) ==
    ParseReturn(walkCursorDirs(ProjectRulesDirs, project.unreadable,
        [NoRules EXCEPT !.GlobalRules =
            IF project.global THEN ProjectText("/p/.cursorrules") ELSE ""]))

----------------------------------------------------------------------------
(* Calls: one function or command is called on one input and returns       *)

\* Events handed to shouldProcessEvent: a name and a set of fsnotify.Op bits
EventNames ==
    {"/p/.cursorrules", "/p/.cursorrules.bak", "/p/README.md", "/p/src/a.mdc",
     "/p/.cursor/rules", "/p/.cursor/config.json", "/p/.cursor/rules/a.txt",
     "/p/sub/.cursor/rules/b.mdc", "/p/.cursor/rulesets/a.txt",
     "/p/x.cursor/rules/a.txt"}
EventOps == (SUBSET {"Create", "Write", "Remove", "Rename", "Chmod"}) \ {{}}
EventInputs == [Name : EventNames, Op : EventOps]

\* Fragments handed to the loop of convertToRooCode: at the project root, in
\* a folder, in a folder of a folder, and outside any .cursor/rules
RooFragmentPaths ==
    {"/p/.cursor/rules/x.mdc", "/p/f/.cursor/rules/x.mdc",
     "/p/a/b/.cursor/rules/x.mdc", "/p/docs/x.mdc"}
RooFragmentInputs ==
    [FilePath : RooFragmentPaths, Name : {"x", "My Rule"}, Description : {""},
     Content : {"XBody"}, AlwaysApply : {FALSE}, Globs : {<<>>, <<"*.ts">>}]

\* RuleSets handed to convertToRooCode: up to MaxFragments distinct fragments
\* of the project root and of the folder f, among them two whose names differ
\* in case and spacing only, one named like the folder's rules file and one
\* named like the global file.
RooFragment(name, dir) ==
    [Name |-> name, Description |-> "", Content |-> name \o "Body",
     AlwaysApply |-> FALSE, Globs |-> <<>>,
     FilePath |-> dir \o "/.cursor/rules/" \o name \o ".mdc"]
RooFragmentFamily ==
    {FragA, FragC, RooFragment("My Rule", "/p"), RooFragment("my-rule", "/p"),
     RooFragment("rules", "/p/f"), RooFragment("01-global", "/p")}
RooFragmentLists ==
    UNION {{l \in [1..n -> RooFragmentFamily] :
               \A i, j \in 1..n : i # j => l[i] # l[j]} : n \in 0..MaxFragments}
RooRuleSets ==
    [GlobalRules : {"", "G"},
     FolderRules : {[k \in S |-> "FBody"] : S \in SUBSET {"f"}},
     MDCRules : RooFragmentLists]

InitCalls ==
    /\ fpc = "call"
    /\ \/ fn = "buildGlobalContent" /\ arg \in FlattenRuleSets
       \/ fn = "sanitizeFilename" /\ arg \in SlugNames
       \/ fn = "buildCmd" /\ arg \in CliTargets
       \/ fn = "runBuild" /\ arg \in RunBuildInputs
       \/ fn = "shouldProcessEvent" /\ arg \in EventInputs
       \/ fn = "ParseCursorRules" /\ arg \in Projects
       \/ fn = "RooFragmentOps" /\ arg \in RooFragmentInputs
       \/ fn = "convertToRooCode" /\ arg \in RooRuleSets
    /\ ret = ""

\* content := c.buildGlobalContent(rules), in convertToWindSurf and
\* convertToCline
CallBuildGlobalContent ==
    /\ UNCHANGED notCall
    /\ fpc = "call"
    /\ fn = "buildGlobalContent"
    /\ \E order \in KeyOrders(arg.FolderRules) :
          ret' = buildGlobalContent(arg, order)
    /\ fpc' = "return"
    /\ UNCHANGED <<fn, arg>>

\* filename := fmt.Sprintf("%s.md", sanitizeFilename(mdcRule.Name)), in
\* convertToRooCode
CallSanitizeFilename ==
    /\ UNCHANGED notCall
    /\ fpc = "call"
    /\ fn = "sanitizeFilename"
    /\ ret' = sanitizeFilename(arg)
    /\ fpc' = "return"
    /\ UNCHANGED <<fn, arg>>

\* The error of os.Getwd in a working directory that has been removed
GetwdError == "getwd: no such file or directory"

\* What parser.ParseCursorRules() returns to performBuild in the project the
\* command runs in, a root rules file and a .cursor/rules directory that
\* holds no fragment: its rules, or, the rules directory being unreadable,
\* the error of the walk
BuildParses ==
    {ParseReturn([err |-> "", rules |-> RulesGlobalOnly]),
     ParseReturn([err |-> ReadError("/p/.cursor/rules"), rules |-> NoRules])}

\* What loadProjectConfig returns when filepath.Walk cannot open the
\* project's .cursor directory
LoadError ==
    "failed to load project config: failed to find .cursor directories: "
        \o ReadError("/p/.cursor")

\* buildOnce(config, tools) is entered: the channel is made and the loop over
\* the tools begins.  rules describes the project config was loaded from.
EnterBuildOnce(list, rules) ==
    /\ api' = "buildOnce"
    /\ ruleSet' = rules
    /\ targets' = list
    /\ cpc' = "spawn"
    /\ tasks' = <<>>
    /\ errChan' = <<>>
    /\ outcome' = NoResult
    /\ pass' = pass + 1
    /\ UNCHANGED <<disk, diskDirs, prevDisk, prevOk>>

\* c.ConvertRules(rules, targetTools) is entered: the channel is made and
\* the loop over the targets begins.
EnterConvertRules(list, rules) ==
    /\ api' = "ConvertRules"
    /\ ruleSet' = rules
    /\ targets' = list
    /\ cpc' = "spawn"
    /\ tasks' = <<>>
    /\ errChan' = <<>>
    /\ outcome' = NoResult
    /\ pass' = pass + 1
    /\ UNCHANGED <<disk, diskDirs, prevDisk, prevOk>>

\* syncai build --target ... (main.go): buildCmd's RunE validates the targets
\* and takes the working directory as the project; an error of either
\* returns, otherwise performBuild is called.
CallBuildCmd(wd) ==
    /\ UNCHANGED notCall
    /\ fpc = "call"
    /\ fn = "buildCmd"
    /\ ret' = IF buildCmd(arg).failed \/ wd THEN buildCmd(arg)
              ELSE Rejected("failed to get current directory: " \o GetwdError)
    /\ fpc' = IF buildCmd(arg).failed \/ ~wd THEN "return" ELSE "parse"
    /\ UNCHANGED <<fn, arg>>

\* rules, err := parser.ParseCursorRules(), in performBuild: its error ends
\* the command, wrapped.
CallPerformBuildParse(parsed) ==
    /\ UNCHANGED <<wvars, mvars, ivars>>
    /\ fpc = "parse"
    /\ parsed \in BuildParses
    /\ IF parsed.err # ""
       THEN /\ ret' = Rejected("failed to parse cursor rules: " \o parsed.err)
            /\ fpc' = "return"
            /\ UNCHANGED ruleSet
       ELSE /\ ruleSet' = parsed.rules
            /\ fpc' = "parsed"
            /\ UNCHANGED ret
    /\ UNCHANGED <<api, targets, cpc, tasks, errChan, outcome, disk, diskDirs,
                   pass, prevDisk, prevOk>>
    /\ UNCHANGED <<fn, arg>>

\* if err := c.ConvertRules(rules, targetTools), in performBuild, is called
CallPerformBuildConvert ==
    /\ UNCHANGED <<wvars, mvars, ivars>>
    /\ fpc = "parsed"
    /\ EnterConvertRules(ret.targetTools, ruleSet)
    /\ fpc' = "convert"
    /\ UNCHANGED <<fn, arg, ret>>

\* ConvertRules has returned to performBuild: its error ends the command,
\* wrapped; otherwise performBuild and the command return nil.
CallPerformBuildReturn ==
    /\ UNCHANGED notCall
    /\ fpc = "convert"
    /\ cpc = "returned"
    /\ ret' = IF outcome.failed
              THEN Rejected("failed to convert rules: " \o outcome.msg)
              ELSE ret
    /\ fpc' = "return"
    /\ UNCHANGED <<fn, arg>>

\* syncai build --target ... [--watch] (the older main, src/unnamed/part_005):
\* runBuild and tools.Build up to "if watch".  loadProjectConfig comes
\* first and its error returns; then a tool is made for each target.  With
\* --watch the call goes on in watchAndBuild, without it in buildOnce.
CallRunBuild(loaded) ==
    /\ UNCHANGED notCall
    /\ fpc = "call"
    /\ fn = "runBuild"
    /\ ret' = IF loaded THEN runBuild(arg.targets) ELSE Rejected(LoadError)
    /\ fpc' = IF ~loaded \/ runBuild(arg.targets).failed THEN "return"
              ELSE IF arg.watch THEN "watch" ELSE "once"
    /\ UNCHANGED <<fn, arg>>

\* return buildOnce(config, tools), in tools.Build, is called.  config is
\* what loadProjectConfig made of the project the command runs in: a root
\* rules file and a .cursor/rules directory that holds no fragment.
CallBuildOnce ==
    /\ UNCHANGED <<wvars, mvars, ivars>>
    /\ fpc = "once"
    /\ EnterBuildOnce(ret.targetTools, RulesGlobalOnly)
    /\ fpc' = "buildOnce"
    /\ UNCHANGED <<fn, arg, ret>>

\* buildOnce has returned to tools.Build, which returns its error as it is.
CallBuildOnceReturn ==
    /\ UNCHANGED notCall
    /\ fpc = "buildOnce"
    /\ cpc = "returned"
    /\ ret' = IF outcome.failed THEN Rejected(outcome.msg) ELSE ret
    /\ fpc' = "return"
    /\ UNCHANGED <<fn, arg>>

\* watcher, err := fsnotify.NewWatcher(), in watchAndBuild
WatchAndBuildStart(ok) ==
    /\ UNCHANGED notCall
    /\ fpc = "watch"
    /\ IF ok
       THEN /\ ret' = [Watching(ret.targetTools, 0, 0) EXCEPT
                           !.toAdd = BuildWatchPaths]
            /\ fpc' = "add"
       ELSE /\ ret' = Rejected("failed to create file watcher: "
                                   \o "too many open files")
            /\ fpc' = "return"
    /\ UNCHANGED <<fn, arg>>

\* err = watcher.Add(path), for .cursorrules and then for each rules
\* directory: a failure ends watchAndBuild
WatchAndBuildAdd(ok) ==
    /\ UNCHANGED notCall
    /\ fpc = "add"
    /\ ret.toAdd # <<>>
    /\ IF ok
       THEN /\ ret' = [ret EXCEPT !.toAdd = Tail(@)]
            /\ UNCHANGED fpc
       ELSE /\ ret' = Rejected(AddError(Head(ret.toAdd)))
            /\ fpc' = "return"
    /\ UNCHANGED <<fn, arg>>

\* if err := buildOnce(config, tools), the initial build of watchAndBuild,
\* is called.  config is what loadProjectConfig made of the project the
\* command runs in: a root rules file and a .cursor/rules directory that
\* holds no fragment.
WatchAndBuildInitial ==
    /\ UNCHANGED <<wvars, mvars, ivars>>
    /\ fpc = "add"
    /\ ret.toAdd = <<>>
    /\ EnterBuildOnce(ret.targetTools, RulesGlobalOnly)
    /\ fpc' = "build"
    /\ UNCHANGED <<fn, arg, ret>>

\* The initial buildOnce has returned: its error ends watchAndBuild, wrapped;
\* otherwise the loop is entered.
WatchAndBuildBuilt ==
    /\ UNCHANGED notCall
    /\ fpc = "build"
    /\ cpc = "returned"
    /\ IF outcome.failed
       THEN /\ ret' = Rejected("initial build failed: " \o outcome.msg)
            /\ fpc' = "return"
       ELSE /\ ret' = Watching(ret.targetTools, 1, 0)
            /\ fpc' = "watching"
    /\ UNCHANGED <<fn, arg>>

\* case event, ok := <-watcher.Events, in watchAndBuild: a closed channel
\* ends watchAndBuild with nil; an event with the Write bit is printed and
\* the debounce sleep begins; any other event is dropped.
WatchAndBuildEvent(op) ==
    /\ UNCHANGED notCall
    /\ fpc = "watching"
    /\ IF ret.closed
       THEN /\ ret' = Accepted(ret.targetTools)
            /\ fpc' = "return"
       ELSE /\ ret.events < MaxWatchEvents
            /\ ret' = [ret EXCEPT !.events = @ + 1]
            /\ fpc' = IF op = "Write" THEN "sleep" ELSE "watching"
    /\ UNCHANGED <<fn, arg>>

\* time.Sleep(100 * time.Millisecond) returns.
WatchAndBuildSleep ==
    /\ UNCHANGED notCall
    /\ fpc = "sleep"
    /\ fpc' = "reload"
    /\ UNCHANGED <<fn, arg, ret>>

\* newConfig, err := loadProjectConfig(): the project is read as it is now;
\* when that fails the failure is logged and the loop goes on.
WatchAndBuildReload(rules, ok) ==
    /\ UNCHANGED notCall
    /\ fpc = "reload"
    /\ rules \in ReloadedConfigs
    /\ IF ok
       THEN /\ ret' = [ret EXCEPT !.newConfig = rules]
            /\ fpc' = "enter"
       ELSE /\ ret' = [ret EXCEPT !.logged = @ + 1]
            /\ fpc' = "watching"
    /\ UNCHANGED <<fn, arg>>

\* if err := buildOnce(newConfig, tools) is called
WatchAndBuildRebuild ==
    /\ UNCHANGED <<wvars, mvars, ivars>>
    /\ fpc = "enter"
    /\ EnterBuildOnce(ret.targetTools, ret.newConfig)
    /\ fpc' = "rebuild"
    /\ UNCHANGED <<fn, arg, ret>>

\* The buildOnce of an event has returned: its error is logged, and the loop
\* goes on either way.
WatchAndBuildRebuilt ==
    /\ UNCHANGED notCall
    /\ fpc = "rebuild"
    /\ cpc = "returned"
    /\ ret' = [ret EXCEPT !.builds = IF outcome.failed THEN @ ELSE @ + 1,
                          !.logged = IF outcome.failed THEN @ + 1 ELSE @]
    /\ fpc' = "watching"
    /\ UNCHANGED <<fn, arg>>

\* case err, ok := <-watcher.Errors, in watchAndBuild: a closed channel ends
\* watchAndBuild with nil; an error is logged.
WatchAndBuildError ==
    /\ UNCHANGED notCall
    /\ fpc = "watching"
    /\ IF ret.closed
       THEN /\ ret' = Accepted(ret.targetTools)
            /\ fpc' = "return"
       ELSE /\ ret.events < MaxWatchEvents
            /\ ret' = [ret EXCEPT !.events = @ + 1, !.errs = @ + 1,
                                  !.logged = @ + 1]
            /\ UNCHANGED fpc
    /\ UNCHANGED <<fn, arg>>

\* if !w.shouldProcessEvent(event) { ... continue }, in Watcher.Start
CallShouldProcessEvent ==
    /\ UNCHANGED notCall
    /\ fpc = "call"
    /\ fn = "shouldProcessEvent"
    /\ ret' = shouldProcessEvent(arg)
    /\ fpc' = "return"
    /\ UNCHANGED <<fn, arg>>

\* rules, err := parser.ParseCursorRules(), in performBuild and Watcher.rebuild
CallParseCursorRules ==
    /\ UNCHANGED notCall
    /\ fpc = "call"
    /\ fn = "ParseCursorRules"
    /\ ret' = ParseCursorRules(arg)
    /\ fpc' = "return"
    /\ UNCHANGED <<fn, arg>>

\* One iteration of the loop over rules.MDCRules in convertToRooCode
CallRooFragmentOps ==
    /\ UNCHANGED notCall
    /\ fpc = "call"
    /\ fn = "RooFragmentOps"
    /\ ret' = RooFragmentOps(arg, outputDir)
    /\ fpc' = "return"
    /\ UNCHANGED <<fn, arg>>

\* case types.TargetRooCode: return c.convertToRooCode(rules, targetDir), in
\* convertToTool: the writes it makes, in order
CallConvertToRooCode ==
    /\ UNCHANGED notCall
    /\ fpc = "call"
    /\ fn = "convertToRooCode"
    /\ \E order \in KeyOrders(arg.FolderRules) :
          ret' = convertToRooCode(arg, outputDir, order)
    /\ fpc' = "return"
    /\ UNCHANGED <<fn, arg>>

CallNext ==
    \/ CallBuildGlobalContent
    \/ CallSanitizeFilename
    \/ \E wd \in BOOLEAN : CallBuildCmd(wd)
    \/ \E parsed \in BuildParses : CallPerformBuildParse(parsed)
    \/ CallPerformBuildConvert
    \/ CallPerformBuildReturn
    \/ \E loaded \in BOOLEAN : CallRunBuild(loaded)
    \/ CallBuildOnce
    \/ CallBuildOnceReturn
    \/ \E ok \in BOOLEAN : WatchAndBuildStart(ok)
    \/ \E ok \in BOOLEAN : WatchAndBuildAdd(ok)
    \/ WatchAndBuildInitial
    \/ Spawn
    \/ \E k \in 1..Len(tasks), order \in KeyOrders(ruleSet.FolderRules) :
           TaskStart(k, order)
    \/ \E k \in 1..Len(tasks) : BuildStart(k)
    \/ \E k \in 1..Len(tasks), res \in {"ok", "mkdir", "open"} :
           TaskWrite(k, res)
    \/ JoinAndReturn
    \/ WatchAndBuildBuilt
    \/ \E op \in Ops : WatchAndBuildEvent(op)
    \/ WatchAndBuildSleep
    \/ \E rules \in ReloadedConfigs, ok \in BOOLEAN : WatchAndBuildReload(rules, ok)
    \/ WatchAndBuildRebuild
    \/ WatchAndBuildRebuilt
    \/ WatchAndBuildError
    \/ CallShouldProcessEvent
    \/ CallParseCursorRules
    \/ CallRooFragmentOps
    \/ CallConvertToRooCode

CallInit ==
    WatcherIdle /\ ConverterIdle /\ ParserIdle /\ InitCalls /\ ImportIdle

CallSpec == CallInit /\ [][CallNext]_<<wvars, cvars, mvars, fvars, ivars>>

----------------------------------------------------------------------------
(* Claims about the Watcher                                                *)

FiredOf(b) == {i \in 1..Len(timers) :
                 timers[i].state = "fired" /\ timers[i].burst = b}

\* A burst is over when a later burst has begun, or when the delay has passed
\* since its last event and its timer has run.
BurstOver(b) ==
    \/ b < Len(bursts)
    \/ sinceLast >= debounceDelay /\ Expired = {}

\* C1: the events of one burst (every gap shorter than the debounce delay)
\* start exactly one rebuild, and that rebuild starts after the last event of
\* the burst: when it starts, the burst already holds all its events.
C1_DebounceCoalescing ==
    \A b \in 1..Len(bursts) :
        /\ Cardinality(FiredOf(b)) <= 1
        /\ \A i \in FiredOf(b) : timers[i].seen = bursts[b]
        /\ BurstOver(b) => Cardinality(FiredOf(b)) = 1

\* A burst of at least two events is over and its rebuild has started.
C1_Witness ==
    \E b \in 1..Len(bursts) :
        bursts[b] >= 2 /\ BurstOver(b) /\ FiredOf(b) # {}

\* C2: no two executions of Watcher.rebuild are in progress at the same time.
C2_SingleFlight == Cardinality(InFlight) <= 1

\* C3: a qualifying change made while the Watcher runs, before cancellation,
\* is eventually read by the Discovery pass of a rebuild (or the run is
\* cancelled first).
C3_NoChangeDropped ==
    (version > Covered /\ ~cancelled) ~> (version <= Covered \/ cancelled)

\* C4: Watcher.Start returns with the watch handle closed and with no rebuild
\* in flight.
C4_ReturnWaitsForRebuild ==
    [][(loop = "select" /\ loop' = "returned") => (closed' /\ InFlight = {})]_vars

\* C5: a failed rebuild does not end the watch loop: once a failure has been
\* logged the loop is still in its select with the watch handle open, unless
\* the run was cancelled, and a delivered event can still be handled.
C5_FailureKeepsWatching ==
    (failures > 0 /\ ~cancelled) =>
        /\ loop = "select"
        /\ ~closed
        /\ Events # <<>> => ENABLED HandleEvent

\* A rebuild failed, and an event handled after that failure armed a timer
\* whose rebuild has started.
C5_Witness ==
    \E i \in 1..Len(timers) :
        timers[i].fails > 0 /\ rebuild[i] \in {"parse", "convert", "done"}

----------------------------------------------------------------------------
(* Claims about the fan-out                                                *)

\* The tasks of the pass whose target is t
TasksOf(t) == {k \in 1..Len(tasks) : tasks[k].target = t}

\* Task k wrote its full output: every file of its plan is on disk, holding
\* what a task of the same target wrote there.
FullOutput(k) ==
    \A i \in 1..Len(tasks[k].plan) :
        LET op == tasks[k].plan[i]
        IN  op.kind = "write" =>
              /\ op.path \in DOMAIN disk
              /\ \E j \in TasksOf(tasks[k].target) :
                     \E n \in 1..Len(tasks[j].plan) :
                         /\ tasks[j].plan[n].kind = "write"
                         /\ tasks[j].plan[n].path = op.path
                         /\ tasks[j].plan[n].content = disk[op.path]

\* C6: when Converter.ConvertRules returns, a conversion was started for every
\* requested target, each one has run to its end, and each one that did not
\* itself fail has written its full output, whichever of the others failed:
\* the batch is never aborted on the first failure.
C6_NoAbortOnFirstFailure ==
    (api = "ConvertRules" /\ cpc = "returned" /\ targets # <<>>) =>
        /\ Len(tasks) = Len(targets)
        /\ \A k \in 1..Len(tasks) :
              /\ tasks[k].target = targets[k]
              /\ Finished(tasks[k])
              /\ tasks[k].pc = "done" =>
                    /\ tasks[k].next = Len(tasks[k].plan) + 1
                    /\ FullOutput(k)

\* ConvertRules has returned from a pass in which the first target's
\* conversion failed while another target's wrote all of its files.
C6_Witness ==
    /\ api = "ConvertRules"
    /\ cpc = "returned"
    /\ Len(tasks) = 2
    /\ tasks[1].pc = "failed"
    /\ tasks[1].plan # <<>>
    /\ tasks[2].pc = "done"
    /\ tasks[2].target # tasks[1].target
    /\ Len(tasks[2].plan) > 1
    /\ FullOutput(2)
    /\ outcome.failed

\* The returned error names target t
Names(msg, t) ==
    \/ Contains(msg, "failed to convert to " \o t \o ":")
    \/ Contains(msg, "unsupported target tool: " \o t)
    \/ Contains(msg, "failed to build " \o t \o ":")

\* Some task of target t failed in this pass
TargetFailed(t) == \E k \in TasksOf(t) : tasks[k].pc = "failed"

\* C7: the build reports failure if and only if at least one requested target
\* failed, and the reported error names every failed target and no target that
\* succeeded.
C7_ErrorNamesFailedTargets ==
    (cpc = "returned" /\ targets # <<>>) =>
        /\ outcome.failed <=> \E k \in 1..Len(tasks) : tasks[k].pc = "failed"
        /\ \A k \in 1..Len(tasks) :
              Names(outcome.msg, tasks[k].target) <=> TargetFailed(tasks[k].target)

\* C8: when the target list of ConvertRules holds the same identifier more than
\* once, one conversion runs for that identifier: never do two tasks of one
\* pass convert to the same target.
C8_DuplicatesCollapse ==
    api = "ConvertRules" =>
        \A j, k \in 1..Len(tasks) :
            (j # k /\ tasks[j].target = tasks[k].target) =>
                ~(tasks[j].pc # "start" /\ tasks[k].pc # "start")

\* C9: a build run twice with no source change leaves byte-identical output
\* files: when the second of two successful passes returns, every file holds
\* what it held when the first returned.
C9_Idempotent ==
    (cpc = "returned" /\ pass >= 2 /\ prevOk /\ ~outcome.failed) =>
        disk = prevDisk

----------------------------------------------------------------------------
(* Claims about the round trip                                             *)

\* The metadata state of a rule is not the default one
NonDefault(rule) ==
    rule.Description # "" \/ rule.AlwaysApply \/ Len(rule.Globs) > 0

\* C10: for every fragment with a non-default metadata state, parsing it with
\* parseMDCFile, re-serializing it with buildMDCContent and parsing the result
\* again yields a fragment equal to the first in name, description,
\* alwaysApply, globs and content.
C10_RoundTrip ==
    (mpc = "reparsed" /\ NonDefault(mfirst)) =>
        /\ msecond.Name = mfirst.Name
        /\ msecond.Description = mfirst.Description
        /\ msecond.AlwaysApply = mfirst.AlwaysApply
        /\ msecond.Globs = mfirst.Globs
        /\ msecond.Content = mfirst.Content

----------------------------------------------------------------------------
(* Claims about the single-file-flatten text                               *)

\* The sections the flatten text is made of
GlobalSection(r) == "# Global Rules\n\n" \o r.GlobalRules

AlwaysSection(m) == "# " \o m.Name \o "\n\n" \o m.Content

FolderHeading == "\n# Folder-specific Rules\n"

FolderSection(r, f) == "## Rules for " \o f \o "\n\n" \o r.FolderRules[f]

ConditionalHeading == "\n# Conditional Rules\n"

ConditionalSection(m) ==
    "## " \o m.Name
    \o (IF m.Globs # <<>> THEN " (applies to: " \o Join(m.Globs, ", ") \o ")"
        ELSE "")
    \o "\n\n" \o m.Content

AlwaysOf(r) == SelectSeq(r.MDCRules, LAMBDA m : m.AlwaysApply)

ConditionalOf(r) == SelectSeq(r.MDCRules, LAMBDA m : ~m.AlwaysApply)

\* x and y both occur in out, and x first
Precedes(out, x, y) ==
    /\ Index(out, x) > 0
    /\ Index(out, x) + Len(x) <= Index(out, y)

\* The sections of r occur in out in the fixed order, each only when it is
\* not empty.
SectionOrder(r, out) ==
    LET a == AlwaysOf(r)
        c == ConditionalOf(r)
        folders == DOMAIN r.FolderRules
    IN  /\ IF r.GlobalRules # "" THEN Index(out, GlobalSection(r)) = 1
           ELSE ~Contains(out, "# Global Rules")
        /\ \A i \in 1..Len(a) :
              /\ Contains(out, AlwaysSection(a[i]))
              /\ r.GlobalRules # "" =>
                    Precedes(out, GlobalSection(r), AlwaysSection(a[i]))
              /\ i > 1 => Precedes(out, AlwaysSection(a[i - 1]), AlwaysSection(a[i]))
              /\ folders # {} => Precedes(out, AlwaysSection(a[i]), FolderHeading)
              /\ c # <<>> => Precedes(out, AlwaysSection(a[i]), ConditionalHeading)
        /\ Contains(out, FolderHeading) <=> folders # {}
        /\ \A f \in folders :
              /\ Precedes(out, FolderHeading, FolderSection(r, f))
              /\ r.GlobalRules # "" => Precedes(out, GlobalSection(r), FolderHeading)
              /\ c # <<>> => Precedes(out, FolderSection(r, f), ConditionalHeading)
        /\ Contains(out, ConditionalHeading) <=> c # <<>>
        /\ \A k \in 1..Len(c) :
              /\ Precedes(out, ConditionalHeading, ConditionalSection(c[k]))
              /\ r.GlobalRules # "" =>
                    Precedes(out, GlobalSection(r), ConditionalHeading)
              /\ k > 1 => Precedes(out, ConditionalSection(c[k - 1]),
                                   ConditionalSection(c[k]))
              /\ ~Contains(SubSeq(out, 1, Index(out, ConditionalHeading)),
                           "# " \o c[k].Name)

\* C11: for every RuleSet the single-file-flatten text places its sections in
\* the fixed order, each present only when non-empty: the Global heading with
\* the global rules, every alwaysApply fragment under its name, the
\* Folder-specific section with each folder, the Conditional section with each
\* other fragment and its globs as "(applies to: ...)".
C11_SectionOrder ==
    (fpc = "return" /\ fn = "buildGlobalContent") => SectionOrder(arg, ret)

\* buildGlobalContent has returned the text of a RuleSet that has all four
\* sections, the conditional fragment with globs.
C11_Witness ==
    /\ fpc = "return"
    /\ fn = "buildGlobalContent"
    /\ arg.GlobalRules # ""
    /\ AlwaysOf(arg) # <<>>
    /\ DOMAIN arg.FolderRules = {"f", "g"}
    /\ \E k \in 1..Len(arg.MDCRules) :
          ~arg.MDCRules[k].AlwaysApply /\ arg.MDCRules[k].Globs # <<>>
    /\ Contains(ret, "(applies to: *.ts)")

----------------------------------------------------------------------------
(* Claims about the Parser's metadata                                      *)

\* The fragment of mfile has been parsed
Parsed == mpc \in {"parsed", "written", "reparsed"}

TextLines(text) == Split(text, "\n")

HasLine(text, l) == \E i \in 1..Len(TextLines(text)) : TextLines(text)[i] = l

\* The number of lines of text that begin with prefix
LinesWith(text, prefix) ==
    Cardinality({i \in 1..Len(TextLines(text)) :
                    HasPrefix(TextLines(text)[i], prefix)})

\* The text after the opening delimiter
AfterOpening(text) == SubSeq(text, 4, Len(text))

\* The opening delimiter is closed
Closed(text) == Contains(AfterOpening(text), "---")

\* The metadata block of a text whose delimiter is closed
Block(text) == SubSeq(AfterOpening(text), 1, Index(AfterOpening(text), "---") - 1)

\* C12: the comment-line fallback runs exactly when the content does not
\* begin with "---" (not after a delimiter that is never closed, not below a
\* closed metadata block); when it runs, the line "// @alwaysApply: true"
\* yields alwaysApply = true and the line "// @globs: a.ts, b.ts" yields
\* globs = ["a.ts", "b.ts"], and without such lines the defaults apply.
C12_CommentFallback ==
    Parsed =>
        IF HasPrefix(mfile.text, "---")
        THEN /\ ~Closed(mfile.text) =>
                   /\ ~mfirst.AlwaysApply
                   /\ mfirst.Globs = <<>>
                   /\ mfirst.Content = mfile.text
             /\ (Closed(mfile.text) /\ ~Contains(Block(mfile.text), "alwaysApply:"))
                   => ~mfirst.AlwaysApply
             /\ (Closed(mfile.text) /\ ~Contains(Block(mfile.text), "globs:"))
                   => mfirst.Globs = <<>>
        ELSE /\ (/\ HasLine(mfile.text, "// @alwaysApply: true")
                 /\ LinesWith(mfile.text, "// @alwaysApply:") = 1)
                   => mfirst.AlwaysApply
             /\ LinesWith(mfile.text, "// @alwaysApply:") = 0 => ~mfirst.AlwaysApply
             /\ (/\ HasLine(mfile.text, "// @globs: a.ts, b.ts")
                 /\ LinesWith(mfile.text, "// @globs:") = 1)
                   => mfirst.Globs = <<"a.ts", "b.ts">>
             /\ LinesWith(mfile.text, "// @globs:") = 0 => mfirst.Globs = <<>>
             /\ mfirst.Content = mfile.text

\* A fragment without delimiter that holds both comment lines has been parsed
\* to alwaysApply = true and globs = ["a.ts", "b.ts"].
C12_Witness ==
    /\ Parsed
    /\ ~HasPrefix(mfile.text, "---")
    /\ HasLine(mfile.text, "// @alwaysApply: true")
    /\ HasLine(mfile.text, "// @globs: a.ts, b.ts")
    /\ mfirst.AlwaysApply
    /\ mfirst.Globs = <<"a.ts", "b.ts">>

----------------------------------------------------------------------------
(* Claims about the slug                                                   *)

\* The characters a slug may not hold: whitespace, the path separators and
\* * ? " < > | : and the upper-case letters
SlugForbidden == " \t\n\r/\\*?\"<>|:" \o UpperCase

\* C13: for every fragment name the slug is never empty, holds no whitespace
\* character, no path separator, none of * ? " < > | \ : and no upper-case
\* letter, no "--" and no leading or trailing hyphen; "My Rule: Test?" gives
\* "my-rule-test".
C13_Slug ==
    (fpc = "return" /\ fn = "sanitizeFilename") =>
        /\ ret # ""
        /\ \A i \in 1..Len(ret) : ~Contains(SlugForbidden, CharAt(ret, i))
        /\ ~Contains(ret, "--")
        /\ ~HasPrefix(ret, "-")
        /\ ~HasSuffix(ret, "-")
        /\ arg = "My Rule: Test?" => ret = "my-rule-test"

----------------------------------------------------------------------------
(* Claims about the build command                                          *)

\* The five target identifiers
FiveTargets == {"cursor", "windsurf", "roo-code", "cline", "claude-code"}

\* The command returned because of one of its --target values
RejectsTarget(r) ==
    /\ r.failed
    /\ \/ HasPrefix(r.msg, "unsupported target: ")
       \/ HasPrefix(r.msg, "failed to create tool ")

\* C14: the build command accepts each of the five target identifiers and
\* runs the conversion on the targets given; it rejects a target list only
\* when one of its identifiers is outside the five.
C14_FiveTargets ==
    /\ (fn = "buildCmd" /\ fpc # "call" /\ arg # <<>>) =>
           /\ RejectsTarget(ret) <=>
                  \E i \in 1..Len(arg) : arg[i] \notin FiveTargets
           /\ fpc = "convert" => targets = arg
           /\ (fpc = "return" /\ ~ret.failed) =>
                  /\ ret.targetTools = arg
                  /\ api = "ConvertRules" /\ targets = arg /\ cpc = "returned"
    /\ (fn = "runBuild" /\ fpc # "call" /\ ~arg.watch /\ arg.targets # <<>>
          /\ ret.msg # LoadError) =>
           /\ RejectsTarget(ret) <=>
                  \E i \in 1..Len(arg.targets) : arg.targets[i] \notin FiveTargets
           /\ fpc = "buildOnce" => targets = arg.targets
           /\ (fpc = "return" /\ ~ret.failed) =>
                  /\ ret.targetTools = arg.targets
                  /\ api = "buildOnce" /\ targets = arg.targets
                  /\ cpc = "returned"

----------------------------------------------------------------------------
(* Claims about the import command                                         *)

\* The content this import copies to path p ("" when it copies nothing there)
ImportedTo(p) ==
    IF \E i \in 1..Len(iplan) : iplan[i].path = p
    THEN (CHOOSE c \in {iplan[i] : i \in 1..Len(iplan)} : c.path = p).content
    ELSE ""
IsDestination(p) == \E i \in 1..Len(iplan) : iplan[i].path = p

\* The file at p as an import that appends leaves it: the content it had
\* before the import, the marker line and the content imported
Appended(p) == ibefore[p] \o "\n\n# Imported content\n\n" \o ImportedTo(p)

\* The import has opened the file at p for writing and has not written all
\* of it: it is writing it, or the write has failed
WriteCut(p) ==
    /\ ipc \in {"write", "failed"}
    /\ icopied < Len(iplan)
    /\ iplan[icopied + 1].path = p

----------------------------------------------------------------------------
(* Claims about the cline output                                           *)

\* The flatten texts buildGlobalContent can produce for the RuleSet of the pass
FlattenTexts ==
    {buildGlobalContent(ruleSet, order) : order \in KeyOrders(ruleSet.FolderRules)}

\* C16: when ConvertRules, its targets including cline, has returned nil,
\* the output root holds both .clinerules and .cline/instructions.md, the two
\* files have the same content, and that content is the single-file flatten
\* of the RuleSet.
C16_ClineMirror ==
    (api = "ConvertRules" /\ cpc = "returned" /\ ~outcome.failed
        /\ \E i \in 1..Len(targets) : targets[i] = "cline") =>
        /\ JoinPath(<<outputDir, ".clinerules">>) \in DOMAIN disk
        /\ JoinPath(<<outputDir, ".cline", "instructions.md">>) \in DOMAIN disk
        /\ disk[JoinPath(<<outputDir, ".clinerules">>)]
               = disk[JoinPath(<<outputDir, ".cline", "instructions.md">>)]
        /\ disk[JoinPath(<<outputDir, ".clinerules">>)] \in FlattenTexts

----------------------------------------------------------------------------
(* Claims about the events the Watcher accepts                             *)

\* path lies inside a rules subdirectory of a .cursor directory, at any depth
RECURSIVE InsideRulesDir(_)
InsideRulesDir(path) ==
    IF Dir(path) = path \/ Dir(path) = "." THEN FALSE
    ELSE \/ Base(Dir(path)) = "rules" /\ Base(Dir(Dir(path))) = ".cursor"
         \/ InsideRulesDir(Dir(path))

\* C17: shouldProcessEvent accepts an event if and only if its operation
\* includes a write or a create and its path has the basename .cursorrules,
\* or lies inside a rules subdirectory of a .cursor directory, or has a
\* basename ending in .mdc.
C17_AcceptedEvents ==
    (fpc = "return" /\ fn = "shouldProcessEvent") =>
        (ret <=> /\ arg.Op \cap {"Write", "Create"} # {}
                 /\ \/ Base(arg.Name) = ".cursorrules"
                    \/ InsideRulesDir(arg.Name)
                    \/ HasSuffix(Base(arg.Name), ".mdc"))

----------------------------------------------------------------------------
(* Claims about Discovery                                                  *)

Fragments == {f \in ProjectFiles : HasSuffix(f, ".mdc")}

\* The fragments ParseCursorRules returned, by path
ParsedPaths(rules) == {rules.MDCRules[i].FilePath : i \in 1..Len(rules.MDCRules)}

\* C18: when one fragment of the project cannot be read and every other file
\* can, ParseCursorRules returns no error, and the RuleSet it returns holds
\* every other fragment and the folder rules of both folders.
C18_UnreadableFragmentSkipped ==
    (fpc = "return" /\ fn = "ParseCursorRules"
        /\ Cardinality(arg.unreadable) = 1 /\ arg.unreadable \subseteq Fragments) =>
        /\ ret.err = ""
        /\ ParsedPaths(ret.rules) = Fragments \ arg.unreadable
        /\ DOMAIN ret.rules.FolderRules = {".", "sub"}

----------------------------------------------------------------------------
(* Claims about the globs of a fragment                                    *)

\* C19: the globs of a parsed fragment hold no empty string, whether they
\* come from the metadata block or from the "// @globs:" comment line.
C19_NoEmptyGlob ==
    Parsed => \A i \in 1..Len(mfirst.Globs) : mfirst.Globs[i] # ""

----------------------------------------------------------------------------
(* Claims about malformed metadata                                         *)

\* The text after the closing delimiter
AfterClosing(text) ==
    SubSeq(AfterOpening(text), Index(AfterOpening(text), "---") + 3,
           Len(AfterOpening(text)))

\* The metadata block holds a line YAML cannot decode: a flow sequence that
\* is never closed, an alias without anchor, a plain scalar with ": " in it
Unparsable(text) ==
    \/ HasLine(text, "name: [api")
    \/ HasLine(text, "globs: *.ts")
    \/ HasLine(text, "description: Rules: TS")

\* C20: parsing a fragment with a closed metadata block returns a fragment
\* whatever the block holds, and its body is the trimmed text after the
\* closing delimiter.  When the block cannot be decoded every field has its
\* default (name from the filename, description empty, alwaysApply false,
\* globs empty); when it can, a key whose value has the wrong type (a number
\* or a boolean for name, a boolean or a list for description, a string or a
\* number for alwaysApply, a string for globs) has its default and the keys
\* beside it keep their values.
C20_BadMetadataDefaults ==
    (Parsed /\ HasPrefix(mfile.text, "---") /\ Closed(mfile.text)) =>
        /\ mfirst.FilePath = mfile.path
        /\ mfirst.Content = TrimSpace(AfterClosing(mfile.text))
        /\ Unparsable(mfile.text) =>
               /\ mfirst.Name = TrimSuffix(Base(mfile.path), ".mdc")
               /\ mfirst.Description = ""
               /\ ~mfirst.AlwaysApply
               /\ mfirst.Globs = <<>>
        /\ HasLine(mfile.text, "name: 123") =>
               /\ mfirst.Name = TrimSuffix(Base(mfile.path), ".mdc")
               /\ HasLine(mfile.text, "alwaysApply: true") => mfirst.AlwaysApply
        /\ (HasLine(mfile.text, "description: true")
               \/ HasLine(mfile.text, "description: [a, b]")) =>
               mfirst.Description = ""
        /\ (HasLine(mfile.text, "alwaysApply: \"true\"")
               \/ HasLine(mfile.text, "alwaysApply: 1")) =>
               /\ ~mfirst.AlwaysApply
               /\ HasLine(mfile.text, "name: api") => mfirst.Name = "api"
        /\ HasLine(mfile.text, "globs: a.ts") => mfirst.Globs = <<>>

\* A fragment whose metadata block cannot be decoded has been parsed: it has
\* the name of its file, the defaults, and the body below the block.
C20_Witness ==
    /\ Parsed
    /\ HasPrefix(mfile.text, "---")
    /\ Closed(mfile.text)
    /\ Unparsable(mfile.text)
    /\ HasLine(mfile.text, "alwaysApply: true")
    /\ mfirst.FilePath = mfile.path
    /\ mfirst.Name = "react"
    /\ ~mfirst.AlwaysApply
    /\ mfirst.Content = "# Body"

----------------------------------------------------------------------------
(* Claims about the debounce timer                                         *)

\* C21: at most one debounce timer is armed at any time.  A qualifying event
\* handled while a timer is armed stops that timer and arms a new one, a
\* stopped timer never runs, and when a timer expires no other timer is left
\* armed: one Pending period ends in exactly one expiry.
C21_OneArmedTimer ==
    /\ [](Cardinality(Armed) <= 1)
    /\ [][/\ (HandleEvent /\ shouldProcessEvent(Head(Events)) /\ Armed # {}) =>
               /\ \A i \in Armed : timers'[i].state = "stopped"
               /\ Len(timers') = Len(timers) + 1
               /\ timers'[Len(timers')].state = "armed"
          /\ \A i \in 1..Len(timers) :
               timers[i].state = "stopped" => timers'[i].state = "stopped"
          /\ (\E i \in 1..Len(timers) :
                  timers[i].state = "armed" /\ timers'[i].state = "fired") =>
               \A j \in 1..Len(timers') : timers'[j].state # "armed"]_vars

\* An event handled in the Pending state stopped a timer, and the timer armed
\* in its place has expired and started its rebuild.
C21_Witness ==
    \E i, j \in 1..Len(timers) :
        /\ i < j
        /\ timers[i].state = "stopped"
        /\ timers[j].state = "fired"
        /\ timers[i].burst = timers[j].burst

----------------------------------------------------------------------------
(* Claims about the join of the fan-out                                    *)

\* The build with a join that is scheduled: wg.Wait() returns once every
\* goroutine has called wg.Done(), and the caller then runs.
ConvFairSpec == ConvSpec /\ WF_vars(JoinAndReturn)

\* The tasks that have sent an error
Senders == {k \in 1..Len(tasks) : tasks[k].pc = "failed"}

\* C22: the build returns only after every target task has finished, and
\* once every task has finished it does return.  No task blocks on reporting
\* its result: each task sends at most one error, so the channel, whose
\* capacity is the number of targets, has room whenever a task is still
\* running.  No task sends after the channel is closed: the channel is closed
\* by the return, and a task that has not finished the moment before the
\* return does not exist.
C22_JoinWaitsForAll ==
    /\ [](/\ cpc = "returned" =>
               /\ Len(tasks) = Len(targets)
               /\ \A k \in 1..Len(tasks) : Finished(tasks[k])
          /\ cpc # "returned" => Len(errChan) = Cardinality(Senders)
          /\ (\E k \in 1..Len(tasks) : ~Finished(tasks[k])) => ChanHasRoom)
    /\ [][cpc = "returned" => \A k \in 1..Len(tasks) :
              k \in 1..Len(tasks') => tasks'[k].pc = tasks[k].pc]_vars
    /\ (cpc = "wait" /\ WaitReturns) ~> (cpc = "returned")

\* A build of two targets has returned after both tasks failed, each having
\* sent its error into the channel.
C22_Witness ==
    /\ cpc = "returned"
    /\ Len(tasks) = 2
    /\ \A k \in 1..2 : tasks[k].pc = "failed"
    /\ outcome.failed

----------------------------------------------------------------------------
(* Claims about the re-serialized fragment                                 *)

\* The fragment has been re-serialized into mtext
Written == mpc \in {"written", "reparsed"}

\* C23: buildMDCContent emits a metadata block, opened by the line "---" and
\* closed by the line "---" and an empty line before the content, if and only
\* if the fragment has a description, alwaysApply true or globs; when all
\* three are at their defaults the output is exactly the content, whatever
\* the fragment's name.
C23_BlockOnlyWhenNeeded ==
    Written =>
        IF NonDefault(mfirst)
        THEN /\ HasPrefix(mtext, "---\n")
             /\ HasSuffix(mtext, "\n---\n\n" \o mfirst.Content)
             /\ Len(mtext) > Len(mfirst.Content) + Len("---\n\n---\n\n")
        ELSE mtext = mfirst.Content

\* A fragment whose metadata names it "api", not "react" as its file, and
\* holds nothing else has been re-serialized to its content alone.
C23_Witness ==
    /\ Written
    /\ mfirst.Name = "api"
    /\ TrimSuffix(Base(mfirst.FilePath), ".mdc") = "react"
    /\ ~NonDefault(mfirst)
    /\ mfirst.Content # ""
    /\ mtext = mfirst.Content

----------------------------------------------------------------------------
(* Claims about the body of a fragment                                     *)

\* C24: on every parse path of parseMDCFile (metadata block present, opening
\* delimiter without closing delimiter, no delimiter at all) the content of
\* the fragment has no leading and no trailing whitespace.
C24_ContentTrimmed ==
    Parsed => mfirst.Content = TrimSpace(mfirst.Content)

----------------------------------------------------------------------------
(* Claims about the roo-code output                                        *)

\* The flatten text of the RuleSet of the pass without its Folder-specific
\* section
FlattenWithoutFolders ==
    buildGlobalContent([ruleSet EXCEPT !.FolderRules = [k \in {} |-> ""]], <<>>)

\* ConvertRules has returned nil from a conversion to roo-code alone
RooCodeConverted ==
    /\ api = "ConvertRules"
    /\ cpc = "returned"
    /\ ~outcome.failed
    /\ targets = <<"roo-code">>

\* C25: after a successful conversion to roo-code the root file holds the
\* flatten text without the Folder-specific section, and for every folder
\* rule a file below that folder of the output root holds exactly the folder
\* rule's content.
C25_RooRootAndFolders ==
    RooCodeConverted =>
        /\ JoinPath(<<outputDir, ConfigPath("roo-code")>>) \in DOMAIN disk
        /\ disk[JoinPath(<<outputDir, ConfigPath("roo-code")>>)]
               = FlattenWithoutFolders
        /\ \A k \in DOMAIN ruleSet.FolderRules :
               \E p \in DOMAIN disk :
                   /\ HasPrefix(p, JoinPath(<<outputDir, k>>) \o "/")
                   /\ disk[p] = ruleSet.FolderRules[k]

\* The folder of a fragment whose source path is
\* <root>/<folder>/.cursor/rules/<file>.mdc, "" when the path has another
\* shape or the fragment lies in the root's own .cursor/rules
FragmentFolder(filePath) ==
    IF /\ HasSuffix(Base(filePath), ".mdc")
       /\ Base(Dir(filePath)) = "rules"
       /\ Base(Dir(Dir(filePath))) = ".cursor"
       /\ HasPrefix(Dir(Dir(Dir(filePath))), outputDir \o "/")
    THEN SubSeq(Dir(Dir(Dir(filePath))), Len(outputDir) + 2,
                Len(Dir(Dir(Dir(filePath)))))
    ELSE ""

\* The paths of the files the calls ops write, in order
FilesWritten(ops) ==
    LET IsWrite(op) == op.kind = "write"
    IN  [i \in 1..Len(SelectSeq(ops, IsWrite)) |-> SelectSeq(ops, IsWrite)[i].path]

\* C26: convertToRooCode writes a fragment whose source path is
\* <root>/<folder>/.cursor/rules/<file>.mdc, for a folder of any depth, to
\* <folder>/.roo/<slug>.md, and only a fragment of another shape to the flat
\* .roo/rules/<slug>.md.
C26_FolderOfAnyDepth ==
    (fpc = "return" /\ fn = "RooFragmentOps") =>
        /\ Len(FilesWritten(ret)) = 1
        /\ FilesWritten(ret)[1] =
               IF FragmentFolder(arg.FilePath) # ""
               THEN outputDir \o "/" \o FragmentFolder(arg.FilePath) \o "/.roo/"
                        \o sanitizeFilename(arg.Name) \o ".md"
               ELSE outputDir \o "/.roo/rules/"
                        \o sanitizeFilename(arg.Name) \o ".md"

----------------------------------------------------------------------------
(* Claims about the rebuilds' own writes                                   *)

\* The step is a system call of rebuild i's conversion.
ConvertWrites(i) ==
    /\ i \in 1..Len(rebuild)
    /\ rebuild[i] = "convert"
    /\ rebuild'[i] = "convert"
    /\ Len(pending'[i]) < Len(pending[i])

\* C27: the files a rebuild writes never produce a qualifying event, also
\* when the output directory is the watched project root and the cursor
\* target is requested; so once the sources stop changing the rebuilds stop
\* too.  Stated on the steps of InRootSpec: no event delivered by a write of
\* a rebuild's conversion passes shouldProcessEvent.
C27_OwnWritesIgnored ==
    [][\A i \in 1..Len(rebuild) :
          ConvertWrites(i) =>
              \A k \in (Len(Events) + 1)..Len(Events') :
                  ~shouldProcessEvent(Events'[k])]_vars

----------------------------------------------------------------------------
(* Claims about the watch loop after cancellation                          *)

\* C28: after Watcher.Start has returned because of cancellation no rebuild
\* starts any more: a timer still armed when the cancellation is observed is
\* stopped, or its expiry performs no Discovery, Parse or Convert.
C28_NoRebuildAfterReturn ==
    [][loop = "returned" =>
          \A i \in 1..Len(rebuild') :
              rebuild'[i] = "parse" => rebuild[i] = "parse"]_vars

----------------------------------------------------------------------------
(* Claims about the completeness of the flattened text                     *)

\* The positions at which text s holds part as a whole part: it starts the
\* text or follows the separator, and ends the text or precedes the
\* separator.
PartStarts(s, part) ==
    {i \in 1..(Len(s) - Len(part) + 1) :
        /\ SubSeq(s, i, i + Len(part) - 1) = part
        /\ i = 1 \/ (i > 2 /\ SubSeq(s, i - 2, i - 1) = "\n\n")
        /\ \/ i + Len(part) - 1 = Len(s)
           \/ SubSeq(s, i + Len(part), i + Len(part) + 1) = "\n\n"}

PartPos(s, part) == Max(PartStarts(s, part))

\* What the flattened text holds for a fragment in the always-apply part,
\* for a fragment in the Conditional section, and for a folder rule
AlwaysText(rule) == "# " \o rule.Name \o "\n\n" \o rule.Content
ConditionalText(rule) ==
    "## " \o rule.Name
        \o (IF Len(rule.Globs) > 0
            THEN " (applies to: " \o Join(rule.Globs, ", ") \o ")" ELSE "")
        \o "\n\n" \o rule.Content
FolderText(folder, content) == "## Rules for " \o folder \o "\n\n" \o content

FolderHead(s) == Index(s, "\n# Folder-specific Rules\n")
ConditionalHead(s) == Index(s, "\n# Conditional Rules\n")

\* Position p of text s lies in the always-apply part, in the
\* Folder-specific section, in the Conditional section
InAlwaysPart(s, p) ==
    /\ FolderHead(s) # 0 => p < FolderHead(s)
    /\ ConditionalHead(s) # 0 => p < ConditionalHead(s)
InFolderSection(s, p) ==
    /\ FolderHead(s) # 0 /\ FolderHead(s) < p
    /\ ConditionalHead(s) # 0 => p < ConditionalHead(s)
InConditionalSection(s, p) ==
    ConditionalHead(s) # 0 /\ ConditionalHead(s) < p

\* The one part text s holds for the fragment, and where it stands
FragmentText(rule) ==
    IF rule.AlwaysApply THEN AlwaysText(rule) ELSE ConditionalText(rule)
FragmentOnce(s, rule) ==
    /\ Cardinality(PartStarts(s, AlwaysText(rule))) =
           (IF rule.AlwaysApply THEN 1 ELSE 0)
    /\ Cardinality(PartStarts(s, ConditionalText(rule))) =
           (IF rule.AlwaysApply THEN 0 ELSE 1)
    /\ IF rule.AlwaysApply
       THEN InAlwaysPart(s, PartPos(s, AlwaysText(rule)))
       ELSE InConditionalSection(s, PartPos(s, ConditionalText(rule)))

\* C29: in the buildGlobalContent output every fragment of the RuleSet
\* appears exactly once, in the always-apply part when AlwaysApply is true
\* and in the Conditional section otherwise, every folder rule appears
\* exactly once, and the fragments of each part keep their RuleSet order.
C29_EveryRuleOnce ==
    (fpc = "return" /\ fn = "buildGlobalContent") =>
        /\ \A i \in 1..Len(arg.MDCRules) : FragmentOnce(ret, arg.MDCRules[i])
        /\ \A k \in DOMAIN arg.FolderRules :
               /\ Cardinality(PartStarts(ret, FolderText(k, arg.FolderRules[k]))) = 1
               /\ InFolderSection(ret, PartPos(ret, FolderText(k, arg.FolderRules[k])))
        /\ \A i, j \in 1..Len(arg.MDCRules) :
               (i < j /\ arg.MDCRules[i].AlwaysApply = arg.MDCRules[j].AlwaysApply)
                   => PartPos(ret, FragmentText(arg.MDCRules[i]))
                          < PartPos(ret, FragmentText(arg.MDCRules[j]))

\* buildGlobalContent has returned the text of a RuleSet with two folder
\* rules and two fragments of the same part, the later-named one first.
C29_Witness ==
    /\ fpc = "return"
    /\ fn = "buildGlobalContent"
    /\ DOMAIN arg.FolderRules = {"f", "g"}
    /\ Len(arg.MDCRules) = 2
    /\ arg.MDCRules[1].AlwaysApply = arg.MDCRules[2].AlwaysApply
    /\ arg.MDCRules[1].Name = "D"
    /\ PartStarts(ret, ConditionalText(arg.MDCRules[2])) # {}

----------------------------------------------------------------------------
(* Claims about the output paths of the roo-code conversion                *)

\* C30: within one roo-code conversion no output path is written twice: two
\* distinct fragments never map to the same <slug>.md of one directory, and
\* a fragment's file never coincides with a folder's rules.md or with the
\* global 01-global.md.
C30_NoPathWrittenTwice ==
    (fpc = "return" /\ fn = "convertToRooCode") =>
        \A i, j \in 1..Len(FilesWritten(ret)) :
            i # j => FilesWritten(ret)[i] # FilesWritten(ret)[j]
====
